---- MODULE Spec2Model ----
(***************************************************************************)
(* Model of the government-data aggregation pipeline of                    *)
(* backend/app/api/government_data.py: the retrying request layer          *)
(* (GovernmentAPIClient.make_request), the numeric coercion helpers        *)
(* (safe_int, safe_float) and the aggregation operations built on them.    *)
(*                                                                         *)
(* Strings are sequences of one-character strings, so that upper(),        *)
(* lower() and float() are computed character by character.  A Python      *)
(* float is a record [cls, h]: cls "fin" with h the value in hundredths,   *)
(* cls "inf" with h the sign, or cls "nan".  Every upstream text of the    *)
(* model has at most two fractional digits, so hundredths are exact.       *)
(***************************************************************************)
EXTENDS Integers, Sequences, FiniteSets, TLC

(***************************************************************************)
(* Bounds of the model                                                     *)
(***************************************************************************)
MaxRecords == 2

\* the last reading of the clock
MaxClock == 2

\* the requests that reach RateLimitMiddleware
MaxDispatches == 4

\* RateLimitMiddleware(max_requests, window_seconds), scaled down from the 100
\* requests per 60 seconds of main.py
max_requests == 2

window_seconds == 2

(***************************************************************************)
(* Characters and strings                                                  *)
(***************************************************************************)
DigitChars == <<"0", "1", "2", "3", "4", "5", "6", "7", "8", "9">>

LowerChars == <<"a", "b", "c", "d", "e", "f", "g", "h", "i", "j", "k", "l", "m",
                "n", "o", "p", "q", "r", "s", "t", "u", "v", "w", "x", "y", "z">>

UpperChars == <<"A", "B", "C", "D", "E", "F", "G", "H", "I", "J", "K", "L", "M",
                "N", "O", "P", "Q", "R", "S", "T", "U", "V", "W", "X", "Y", "Z">>

IndexOf(c, chars) ==
    IF \E i \in 1..Len(chars) : chars[i] = c
    THEN CHOOSE i \in 1..Len(chars) : chars[i] = c
    ELSE 0

\* str.upper()
upper(s) ==
    [i \in 1..Len(s) |->
        LET k == IndexOf(s[i], LowerChars) IN IF k > 0 THEN UpperChars[k] ELSE s[i]]

\* str.lower()
lower(s) ==
    [i \in 1..Len(s) |->
        LET k == IndexOf(s[i], UpperChars) IN IF k > 0 THEN LowerChars[k] ELSE s[i]]

\* needle in hay (substring test)
Contains(hay, needle) ==
    \E i \in 0..(Len(hay) - Len(needle)) :
        \A j \in 1..Len(needle) : hay[i + j] = needle[j]

AllDigits(s) == \A i \in 1..Len(s) : IndexOf(s[i], DigitChars) > 0

\* the characters of a string literal of the source
Chars(word) ==
    CASE word = "Odisha" -> <<"O", "d", "i", "s", "h", "a">>
      [] word = "Chhattisgarh" -> <<"C", "h", "h", "a", "t", "t", "i", "s", "g", "a", "r", "h">>
      [] word = "Assam" -> <<"A", "s", "s", "a", "m">>
      [] word = "Total" -> <<"T", "o", "t", "a", "l">>
      [] word = "Puri" -> <<"P", "u", "r", "i">>
      [] word = "Telangana" -> <<"T", "e", "l", "a", "n", "g", "a", "n", "a">>
      [] word = "Madhya Pradesh" -> <<"M", "a", "d", "h", "y", "a", " ", "P", "r", "a", "d", "e", "s", "h">>
      [] word = "Andhra Pradesh" -> <<"A", "n", "d", "h", "r", "a", " ", "P", "r", "a", "d", "e", "s", "h">>
      [] word = "Jharkhand" -> <<"J", "h", "a", "r", "k", "h", "a", "n", "d">>
      [] word = "Maharashtra" -> <<"M", "a", "h", "a", "r", "a", "s", "h", "t", "r", "a">>
      [] word = "West Bengal" -> <<"W", "e", "s", "t", " ", "B", "e", "n", "g", "a", "l">>
      [] word = "Tripura" -> <<"T", "r", "i", "p", "u", "r", "a">>
      [] word = "Unknown" -> <<"U", "n", "k", "n", "o", "w", "n">>
      [] word = "distributed" -> <<"d", "i", "s", "t", "r", "i", "b", "u", "t", "e", "d">>
      [] word = "received" -> <<"r", "e", "c", "e", "i", "v", "e", "d">>
      [] word = "pending" -> <<"p", "e", "n", "d", "i", "n", "g">>
      [] word = "historical" -> <<"h", "i", "s", "t", "o", "r", "i", "c", "a", "l">>
      [] word = "state" -> <<"s", "t", "a", "t", "e">>
      [] word = "district" -> <<"d", "i", "s", "t", "r", "i", "c", "t">>
      [] word = "claims_received" -> <<"c", "l", "a", "i", "m", "s", "_", "r", "e", "c", "e", "i", "v", "e", "d">>
      [] word = "titles_distributed" -> <<"t", "i", "t", "l", "e", "s", "_", "d", "i", "s", "t", "r", "i", "b", "u", "t", "e", "d">>
      [] word = "processing_efficiency" -> <<"p", "r", "o", "c", "e", "s", "s", "i", "n", "g", "_", "e", "f", "f", "i", "c", "i", "e", "n", "c", "y">>
      [] word = "last_updated" -> <<"l", "a", "s", "t", "_", "u", "p", "d", "a", "t", "e", "d">>
      [] word = "asc" -> <<"a", "s", "c">>
      [] word = "desc" -> <<"d", "e", "s", "c">>
      [] word = "claim_" -> <<"c", "l", "a", "i", "m", "_">>
      [] word = "historical_" -> <<"h", "i", "s", "t", "o", "r", "i", "c", "a", "l", "_">>
      [] word = "None" -> <<"N", "o", "n", "e">>
      [] word = "2024-07-01" -> <<"2", "0", "2", "4", "-", "0", "7", "-", "0", "1">>

RECURSIVE DigitsValue(_)
DigitsValue(s) ==
    IF s = <<>> THEN 0
    ELSE 10 * DigitsValue(SubSeq(s, 1, Len(s) - 1)) + (IndexOf(s[Len(s)], DigitChars) - 1)

RECURSIVE NatToChars(_)
NatToChars(n) ==
    IF n < 10 THEN <<DigitChars[n + 1]>>
    ELSE NatToChars(n \div 10) \o <<DigitChars[(n % 10) + 1]>>

(***************************************************************************)
(* JSON values of an upstream record and Python floats                     *)
(***************************************************************************)
JNull == [t |-> "null", s |-> <<>>, n |-> 0]

JStr(s) == [t |-> "str", s |-> s, n |-> 0]

JInt(n) == [t |-> "int", s |-> <<>>, n |-> n]

\* a JSON number with a fractional part, n in hundredths
JFloat(n) == [t |-> "float", s |-> <<>>, n |-> n]

Fin(h) == [cls |-> "fin", h |-> h]

NaN == [cls |-> "nan", h |-> 0]

Abs(n) == IF n < 0 THEN 0 - n ELSE n

\* str(value) of a JSON value that is not None
str(value) ==
    CASE value.t = "str" -> value.s
      [] value.t = "int" ->
            (IF value.n < 0 THEN <<"-">> ELSE <<>>) \o NatToChars(Abs(value.n))
      [] value.t = "float" ->
            LET a == Abs(value.n)
                frac == a % 100
            IN  (IF value.n < 0 THEN <<"-">> ELSE <<>>)
                \o NatToChars(a \div 100) \o <<".">>
                \o (IF frac % 10 = 0 THEN NatToChars(frac \div 10)
                    ELSE <<DigitChars[(frac \div 10) + 1], DigitChars[(frac % 10) + 1]>>)
      [] OTHER -> Chars("None")

RECURSIVE strip(_)
strip(s) ==
    IF s = <<>> THEN s
    ELSE IF Head(s) = " " THEN strip(Tail(s))
    ELSE IF s[Len(s)] = " " THEN strip(SubSeq(s, 1, Len(s) - 1))
    ELSE s

Parsed(f) == [ok |-> TRUE, val |-> f]

\* the mantissa with integer digits ip and fraction digits fp, in hundredths,
\* -1 when malformed
mantissa_value(ip, fp) ==
    IF AllDigits(ip) /\ AllDigits(fp) /\ Len(ip) + Len(fp) > 0
    THEN 100 * DigitsValue(ip) + DigitsValue(SubSeq(fp \o <<"0", "0">>, 1, 2))
    ELSE -1

\* the decimal mantissa "ddd", "ddd.dd", ".dd" or "ddd." in hundredths, -1 when malformed
MantissaHundredths(m) ==
    IF IndexOf(".", m) = 0 THEN mantissa_value(m, <<>>)
    ELSE mantissa_value(SubSeq(m, 1, IndexOf(".", m) - 1),
                        SubSeq(m, IndexOf(".", m) + 1, Len(m)))

\* the exponent digits ds with their sign
exponent_value(neg, ds) ==
    IF ds # <<>> /\ AllDigits(ds)
    THEN [ok |-> TRUE, e |-> IF neg THEN 0 - DigitsValue(ds) ELSE DigitsValue(ds)]
    ELSE [ok |-> FALSE, e |-> 0]

\* the exponent "dd", "+dd" or "-dd": [ok, e]
ExponentOf(x) ==
    IF x # <<>> /\ Head(x) \in {"+", "-"}
    THEN exponent_value(Head(x) = "-", Tail(x))
    ELSE exponent_value(FALSE, x)

\* float(text) once sign, mantissa and exponent are read
float_value(sgn, mh, expo) ==
    IF mh < 0 \/ ~expo.ok THEN [ok |-> FALSE, val |-> NaN]
    ELSE IF mh = 0 THEN Parsed(Fin(0))
    ELSE IF expo.e > 308 THEN Parsed([cls |-> "inf", h |-> sgn])
    ELSE IF expo.e >= 0 THEN Parsed(Fin(sgn * mh * (10 ^ expo.e)))
    ELSE Parsed(Fin(sgn * (mh \div (10 ^ (0 - expo.e)))))

\* float(text) of the lower-cased text without its sign
float_unsigned(sgn, body) ==
    IF body \in {<<"i", "n", "f">>, <<"i", "n", "f", "i", "n", "i", "t", "y">>}
    THEN Parsed([cls |-> "inf", h |-> sgn])
    ELSE IF body = <<"n", "a", "n">> THEN Parsed(NaN)
    ELSE IF IndexOf("e", body) = 0
    THEN float_value(sgn, MantissaHundredths(body), [ok |-> TRUE, e |-> 0])
    ELSE float_value(sgn, MantissaHundredths(SubSeq(body, 1, IndexOf("e", body) - 1)),
                     ExponentOf(SubSeq(body, IndexOf("e", body) + 1, Len(body))))

\* float(text) of the text without surrounding blanks
float_stripped(s0) ==
    IF s0 # <<>> /\ Head(s0) \in {"+", "-"}
    THEN float_unsigned(IF Head(s0) = "-" THEN -1 ELSE 1, lower(Tail(s0)))
    ELSE float_unsigned(1, lower(s0))

\* float(text): ValueError is [ok |-> FALSE]
float(text) == float_stripped(strip(text))

\* int(f) of a float: truncation toward zero; OverflowError on an infinity,
\* ValueError on a NaN
int(f) ==
    CASE f.cls = "fin" ->
            [exc |-> "none",
             val |-> IF f.h < 0 THEN 0 - ((0 - f.h) \div 100) ELSE f.h \div 100]
      [] f.cls = "inf" -> [exc |-> "OverflowError", val |-> 0]
      [] OTHER -> [exc |-> "ValueError", val |-> 0]

Returned(v) == [exc |-> "none", val |-> v]

Sentinels4 == {<<"N", "A">>, <<"N", ".", "A", ".">>, <<>>, <<"N", "U", "L", "L">>}

\* int(float(...)) inside try / except (ValueError, TypeError): p is what float() gave
int_or_default(p, default) ==
    IF ~p.ok THEN Returned(default)
    ELSE IF int(p.val).exc = "ValueError" THEN Returned(default)
    ELSE int(p.val)

\* the body shared by the safe_int definitions: sentinels is the literal list
safe_int_with(sentinels, value, default) ==
    IF value.t = "null" \/ upper(str(value)) \in sentinels
    THEN Returned(default)
    ELSE int_or_default(float(str(value)), default)

\* safe_int of get_all_india_summary
safe_int(value, default) == safe_int_with(Sentinels4, value, default)

\* safe_int of get_states_summary
safe_int_states(value, default) == safe_int_with(Sentinels4, value, default)

\* safe_int of get_comprehensive_claims
safe_int_claims(value, default) == safe_int_with({<<"N", "A">>, <<"N", ".", "A", ".">>, <<>>}, value, default)

\* float(...) inside try / except (ValueError, TypeError): p is what float() gave
float_or_default(p, default) == IF ~p.ok THEN Returned(default) ELSE Returned(p.val)

\* safe_float of get_all_india_summary; the result value is a float
safe_float(value, default) ==
    IF value.t = "null" \/ upper(str(value)) \in Sentinels4
    THEN Returned(default)
    ELSE float_or_default(float(str(value)), default)

(***************************************************************************)
(* Float arithmetic used by the aggregation operations                     *)
(***************************************************************************)
\* n / d rounded to the nearest integer, ties to even (d > 0)
RoundDiv(n, d) ==
    LET q == n \div d
        r == n - q * d
    IN  IF 2 * r < d THEN q
        ELSE IF 2 * r > d THEN q + 1
        ELSE IF q % 2 = 0 THEN q ELSE q + 1

Max(a, b) == IF a >= b THEN a ELSE b

Min(a, b) == IF a <= b THEN a ELSE b

\* round((titles / max(claims, 1)) * 100, 2), in hundredths
efficiency(titles, claims) == Fin(RoundDiv(titles * 10000, Max(claims, 1)))

\* a + b on floats
FAdd(a, b) ==
    CASE a.cls = "nan" \/ b.cls = "nan" -> NaN
      [] a.cls = "inf" /\ b.cls = "inf" -> IF a.h = b.h THEN a ELSE NaN
      [] a.cls = "inf" -> a
      [] b.cls = "inf" -> b
      [] OTHER -> Fin(a.h + b.h)

RECURSIVE FSum(_)
FSum(fs) == IF fs = <<>> THEN Fin(0) ELSE FAdd(FSum(SubSeq(fs, 1, Len(fs) - 1)), fs[Len(fs)])

RECURSIVE Sum(_)
Sum(ns) == IF ns = <<>> THEN 0 ELSE Sum(SubSeq(ns, 1, Len(ns) - 1)) + ns[Len(ns)]

\* list.sort(key=lambda x: x[field], reverse=True) on integer keys: stable, equal keys keep
\* their order; insertion of each element after the elements that are not
\* smaller
RECURSIVE SortDesc(_, _)
SortDesc(xs, field) ==
    IF xs = <<>> THEN <<>>
    ELSE LET rest == SortDesc(SubSeq(xs, 1, Len(xs) - 1), field)
             x == xs[Len(xs)]
             pos == Cardinality({i \in 1..Len(rest) : rest[i][field] >= x[field]})
         IN  SubSeq(rest, 1, pos) \o <<x>> \o SubSeq(rest, pos + 1, Len(rest))

(***************************************************************************)
(* Upstream records                                                        *)
(***************************************************************************)
K_claims_total == "number_of_claims_received_upto_30_06_2024___total"

K_titles_total == "number_of_titles_distributed_upto_30_06_2024___total"

K_claims_individual == "number_of_claims_received_upto_30_06_2024___individual"

K_claims_community == "number_of_claims_received_upto_30_06_2024___community"

K_titles_individual == "number_of_titles_distributed_upto_30_06_2024___individual"

K_titles_community == "number_of_titles_distributed_upto_30_06_2024___community"

K_percentage == "percentage_of_claims_approved_over_number_of_claims_received__as_on_31_10_2018_"

\* dict.get(key, default)
Get(record, key, default) == IF key \in DOMAIN record THEN record[key] ELSE default

\* Python truthiness of a JSON value
Truthy(v) ==
    CASE v.t = "null" -> FALSE
      [] v.t = "str" -> v.s # <<>>
      [] OTHER -> v.n # 0

(***************************************************************************)
(* The upstream datasets: every HTTP 200 answer carries a sequence of at   *)
(* most MaxRecords different records of the catalog of its dataset         *)
(***************************************************************************)
\* line 497: states_data[:10]
TopStatesLimit == 10

PrimaryRecord(state, claims, titles) ==
    ("state" :> state) @@ (K_claims_total :> claims) @@ (K_titles_total :> titles)

\* the sequences of at most n records of S, no record twice
RecordLists(S, n) ==
    {list \in UNION {[1..k -> S] : k \in 0..n} :
        \A i, j \in 1..Len(list) : list[i] = list[j] => i = j}

\* the records an upstream answer may hold, by dataset: at most MaxRecords
\* different records of the catalog of the dataset; the primary dataset may
\* also name one state more than the all-India summary lists (states "a", "b",
\* ... with 1, 2, ... claims received and one title each)
Payloads(ds) ==
    CASE ds = "primary" ->
            RecordLists(
                { PrimaryRecord(JStr(Chars("Odisha")), JStr(<<"1", "0", "0">>), JStr(<<"5", "0">>))
                      @@ ("district" :> JStr(Chars("Puri"))) @@ ("_id" :> JInt(1))
                      @@ (K_claims_individual :> JInt(90)) @@ (K_claims_community :> JInt(10))
                      @@ (K_titles_individual :> JStr(<<"4", "5", ".", "0">>))
                      @@ (K_titles_community :> JStr(<<"5">>))
                      @@ ("area_in_hectare" :> JStr(<<"7", ".", "9">>)),
                  PrimaryRecord(JStr(Chars("Chhattisgarh")), JInt(200), JInt(40))
                      @@ (K_claims_individual :> JStr(<<"-", "5">>)) @@ (K_titles_community :> JNull),
                  PrimaryRecord(JStr(Chars("Total")), JInt(300), JInt(90)),
                  PrimaryRecord(JStr(<<>>), JStr(<<"i", "n", "f">>), JInt(1)),
                  PrimaryRecord(JStr(upper(Chars("Odisha"))), JStr(<<"N", "A">>), JStr(<<"5">>)),
                  PrimaryRecord(JStr(Chars("Odisha")), JInt(3), JStr(<<"1", "e", "9", "9", "9">>)) },
                MaxRecords)
            \cup {[i \in 1..(TopStatesLimit + 1) |->
                       PrimaryRecord(JStr(<<LowerChars[i]>>), JInt(i), JInt(1))]}
      [] ds = "approval" ->
            RecordLists(
                { ("name_of_state" :> JStr(Chars("Odisha"))) @@ (K_percentage :> JFloat(6930)),
                  ("name_of_state" :> JStr(Chars("Odisha")))
                    @@ (K_percentage :> JStr(<<"4", "0">>)),
                  ("name_of_state" :> JStr(Chars("Chhattisgarh")))
                    @@ (K_percentage :> JStr(<<"i", "n", "f">>)) },
                MaxRecords)
      [] OTHER ->
            RecordLists(
                { ("state" :> JStr(Chars("Odisha")))
                      @@ ("individual_claims_received" :> JStr(<<"1", "0", "0">>))
                      @@ ("individual_titles_distributed" :> JInt(50)),
                  ("community_claims_received" :> JStr(<<"-", "2">>)) },
                MaxRecords)

(***************************************************************************)
(* State                                                                   *)
(***************************************************************************)
VARIABLES
    op,         \* the operation being served, "none" between requests
    params,     \* its query parameters
    pc,         \* "idle", "request", "returned", "raised", "done"
    dataset,    \* the dataset of the make_request call in progress
    retries,    \* the retries argument of the innermost make_request frame
    hist,       \* the upstream answers to the attempts of the call
    sleeps,     \* the asyncio.sleep delays of the call, in seconds
    frames,     \* the call sites of the suspended outer frames
    outcome,    \* what the call returned or raised
    locals,     \* the local variables of the handler that are still read; when
                \* the handler has returned, those its answer was built from
    result,     \* what the operation returned or raised to the routing layer
    cin,        \* the value handed to safe_int / safe_float when they are applied alone
    cdef,       \* the default handed to them
    cout,       \* what they returned or raised, by function name
    parked,     \* a second make_request call, suspended at an await while the
                \* call above runs: its pc, dataset, retries, hist, sleeps,
                \* frames and outcome
    requests,   \* RateLimitMiddleware.requests: the admission times kept per client
    responses,  \* what RateLimitMiddleware.dispatch answered, in the order of the
                \* dispatches; status_code 0 while call_next is awaited
    clock       \* the reading of the system clock, in seconds

vars == <<op, params, pc, dataset, retries, hist, sleeps, frames, outcome,
          locals, result, cin, cdef, cout, parked, requests, responses, clock>>

coerceVars == <<cin, cdef, cout>>

(***************************************************************************)
(* GovernmentAPIClient                                                     *)
(***************************************************************************)
max_retries == 2

retry_delay == 1

RetryableStatuses == {500, 502, 503, 504, 429}

Status(code) == [kind |-> "status", code |-> code]

Timeout == [kind |-> "timeout", code |-> 0]

\* what the upstream may answer to one GET: a status, a timeout, or any other
\* exception of the HTTP client (connection refused, undecodable body)
Answers ==
    {Status(c) : c \in {200, 404, 429, 503}} \cup {Timeout, [kind |-> "error", code |-> 0]}

HTTPException(status_code, detail) ==
    [kind |-> "raise", status_code |-> status_code, detail |-> detail]

NoOutcome == [kind |-> "none", status_code |-> 0, detail |-> ""]

\* the retry condition without the list of retryable statuses
retry_on_any_status(r, code) == r < max_retries

\* line 88: the retry condition after a non-200 status
retry_on_status(r, code) == r < max_retries /\ code \in RetryableStatuses

\* the retry condition with one retry too many
retry_on_timeout_once_more(r) == r <= max_retries

\* line 103: the retry condition after a timeout
retry_on_timeout(r) == r < max_retries

\* line 89 and line 104: the exponential backoff delay
backoff(r) == retry_delay * (2 ^ r)

\* lines 111-114: except Exception turns whatever was raised inside the try
\* block, an HTTPException included, into a status 500
except_Exception(e) == HTTPException(500, "Government API request failed")

\* what one frame raises on an answer it does not retry
raise_in_frame(answer) ==
    CASE answer.kind = "status" ->
            except_Exception(HTTPException(answer.code, "Government API error"))
      [] answer.kind = "timeout" -> HTTPException(504, "Government API timeout")
      [] OTHER -> except_Exception(answer)

\* an exception leaving the recursive call of an outer frame: the call of
\* line 92 stands inside the try block, the call of line 107 inside the
\* handler of the timeout
RECURSIVE unwind(_, _)
unwind(e, fs) ==
    IF fs = <<>> THEN e
    ELSE unwind(IF fs[Len(fs)] = "try" THEN except_Exception(e) ELSE e,
                SubSeq(fs, 1, Len(fs) - 1))

\* gov_api.make_request(endpoint, params) is entered with retries = 0
call_make_request(ds) ==
    /\ pc' = "request"
    /\ dataset' = ds
    /\ retries' = 0
    /\ hist' = <<>>
    /\ sleeps' = <<>>
    /\ frames' = <<>>
    /\ outcome' = NoOutcome

\* one attempt of make_request: the GET and everything up to the next GET,
\* the return or the raise; when the call returns response.json(), the records
\* are drawn when the handler that awaits the call resumes
make_request_attempt(answer) ==
    /\ pc = "request"
    /\ hist' = Append(hist, answer)
    /\ IF answer.kind = "status" /\ answer.code = 200
       THEN /\ pc' = "returned"
            /\ outcome' = [kind |-> "return", status_code |-> 0, detail |-> ""]
            /\ frames' = <<>>
            /\ UNCHANGED <<retries, sleeps>>
       ELSE IF \/ answer.kind = "status" /\ retry_on_status(retries, answer.code)
               \/ answer.kind = "timeout" /\ retry_on_timeout(retries)
       THEN /\ sleeps' = Append(sleeps, backoff(retries))
            /\ retries' = retries + 1
            /\ frames' = Append(frames, IF answer.kind = "status" THEN "try" ELSE "except")
            /\ UNCHANGED <<pc, outcome>>
       ELSE /\ pc' = "raised"
            /\ outcome' = unwind(raise_in_frame(answer), frames)
            /\ frames' = <<>>
            /\ UNCHANGED <<retries, sleeps>>
    /\ UNCHANGED <<op, params, dataset, locals, result, coerceVars, parked, requests, responses, clock>>

make_request == \E answer \in Answers : make_request_attempt(answer)

\* two handlers await gov_api.make_request at the same time: the call for the
\* primary dataset runs, the call for the approval dataset waits its turn
concurrent_calls ==
    /\ pc = "idle" /\ parked.pc = "none"
    /\ op' = "concurrent"
    /\ call_make_request("primary")
    /\ parked' = [pc |-> "request", dataset |-> "approval", retries |-> 0, hist |-> <<>>,
                  sleeps |-> <<>>, frames |-> <<>>, outcome |-> NoOutcome]
    /\ UNCHANGED <<params, locals, result, coerceVars, requests, responses, clock>>

\* the event loop with a retry counter kept on the shared client: the
\* counter is not part of what is put aside and taken up
switch_sharing_retries ==
    /\ op = "concurrent"
    /\ pc' = parked.pc
    /\ dataset' = parked.dataset
    /\ retries' = retries
    /\ hist' = parked.hist
    /\ sleeps' = parked.sleeps
    /\ frames' = parked.frames
    /\ outcome' = parked.outcome
    /\ parked' = [pc |-> pc, dataset |-> dataset, retries |-> retries, hist |-> hist,
                  sleeps |-> sleeps, frames |-> frames, outcome |-> outcome]
    /\ UNCHANGED <<op, params, locals, result, coerceVars, requests, responses, clock>>

\* the event loop leaves the running call at one of its awaits (client.get of
\* line 77, asyncio.sleep of lines 91 and 106) and resumes the other call:
\* url, params and retries are arguments of the call, held by its own frame
switch ==
    /\ op = "concurrent"
    /\ pc' = parked.pc
    /\ dataset' = parked.dataset
    /\ retries' = parked.retries
    /\ hist' = parked.hist
    /\ sleeps' = parked.sleeps
    /\ frames' = parked.frames
    /\ outcome' = parked.outcome
    /\ parked' = [pc |-> pc, dataset |-> dataset, retries |-> retries, hist |-> hist,
                  sleeps |-> sleeps, frames |-> frames, outcome |-> outcome]
    /\ UNCHANGED <<op, params, locals, result, coerceVars, requests, responses, clock>>

(***************************************************************************)
(* Responses                                                               *)
(***************************************************************************)
\* settings.get_current_timestamp(): the reading of the clock
Now == clock

NoResult == [kind |-> "none"]

\* a payload returned to the routing layer
Respond(payload) == [kind |-> "response", payload |-> payload]

\* an HTTPException raised to the routing layer
Fail(status_code, detail) ==
    [kind |-> "http_error", status_code |-> status_code, detail |-> detail]

NoParams == [limit |-> 0]

NoLocals == [none |-> TRUE]

(***************************************************************************)
(* get_all_india_summary                                                   *)
(***************************************************************************)
\* lines 443-445: the records that are not skipped
all_india_kept(records) ==
    SelectSeq(records,
              LAMBDA r : LET state == Get(r, "state", JStr(<<>>))
                         IN  ~(state = JStr(Chars("Total")) \/ ~Truthy(state)))

CountKeys ==
    {K_claims_total, K_titles_total, K_claims_individual, K_claims_community,
     K_titles_individual, K_titles_community}

\* an exception leaves safe_int while the records are processed
all_india_raises(records) ==
    \E i \in 1..Len(all_india_kept(records)) : \E k \in CountKeys :
        safe_int(Get(all_india_kept(records)[i], k, JNull), 0).exc # "none"

\* the indices of the approval records whose state name differs from state in
\* case at most
approval_hits_ignoring_case(state, approval_records) ==
    {i \in 1..Len(approval_records) :
        lower(Get(approval_records[i], "name_of_state", JStr(<<>>)).s) = lower(state.s)}

\* the indices of the approval records of the state
approval_hits(state, approval_records) ==
    {i \in 1..Len(approval_records) :
        Get(approval_records[i], "name_of_state", JStr(<<>>)) = state}

\* lines 461-466: the approval percentage of the first approval record of the state
all_india_approval(state, approval_records) ==
    IF approval_hits(state, approval_records) = {} THEN Fin(0)
    ELSE safe_float(
            Get(approval_records[CHOOSE i \in approval_hits(state, approval_records) :
                                    \A j \in approval_hits(state, approval_records) : i <= j],
                K_percentage, JInt(0)),
            Fin(0)).val

\* lines 468-474: the entry of states_data
all_india_entry(state, claims, titles, approval_percentage) ==
    [state |-> state,
     claims_received |-> claims,
     titles_distributed |-> titles,
     processing_efficiency |-> efficiency(titles, claims),
     approval_percentage |-> approval_percentage]

\* lines 447-474: the entry of states_data of one record
all_india_state(r, approval_records) ==
    all_india_entry(Get(r, "state", JStr(<<>>)),
                    safe_int(Get(r, K_claims_total, JNull), 0).val,
                    safe_int(Get(r, K_titles_total, JNull), 0).val,
                    all_india_approval(Get(r, "state", JStr(<<>>)), approval_records))

\* the running total of one count over the kept records
\* the total over the first records only, as many as top_states lists
all_india_total_of_top(kept, key) ==
    Sum([i \in 1..Min(TopStatesLimit, Len(kept)) |-> safe_int(Get(kept[i], key, JNull), 0).val])

all_india_total(kept, key) ==
    Sum([i \in 1..Len(kept) |-> safe_int(Get(kept[i], key, JNull), 0).val])

\* round(total / n, 2) for an integer n > 0
avg_round(total, n) == IF total.cls = "fin" THEN Fin(RoundDiv(total.h, n)) ELSE total

\* lines 476-479: the average approval percentage
all_india_average(states_data) ==
    IF Len(states_data) > 0
    THEN avg_round(FSum([i \in 1..Len(states_data) |-> states_data[i].approval_percentage]),
                   Len(states_data))
    ELSE Fin(0)

\* lines 483-504: the payload
all_india_payload(totals, states_data) ==
    [success |-> TRUE,
     all_india_summary |->
        [total_claims_received |-> totals.claims,
         total_titles_distributed |-> totals.titles,
         total_individual_claims |-> totals.individual_claims,
         total_community_claims |-> totals.community_claims,
         total_individual_titles |-> totals.individual_titles,
         total_community_titles |-> totals.community_titles,
         national_processing_efficiency |-> efficiency(totals.titles, totals.claims),
         average_approval_percentage |-> all_india_average(states_data),
         claims_pending |-> totals.claims - totals.titles,
         total_states_covered |-> Len(states_data)],
     top_states |-> SubSeq(SortDesc(states_data, "claims_received"), 1,
                           Min(TopStatesLimit, Len(states_data))),
     metadata |->
        [source |-> "Ministry of Tribal Affairs",
         data_as_on |-> "30.06.2024",
         approval_data_as_on |-> "31.10.2018",
         last_updated |-> Now]]

\* lines 433-474: the loop over the kept records
all_india_loop(kept, approval_records) ==
    all_india_payload(
        [claims |-> all_india_total(kept, K_claims_total),
         titles |-> all_india_total(kept, K_titles_total),
         individual_claims |-> all_india_total(kept, K_claims_individual),
         community_claims |-> all_india_total(kept, K_claims_community),
         individual_titles |-> all_india_total(kept, K_titles_individual),
         community_titles |-> all_india_total(kept, K_titles_community)],
        [i \in 1..Len(kept) |-> all_india_state(kept[i], approval_records)])

\* lines 433-504: the live payload
all_india_live(records, approval_records) ==
    all_india_loop(all_india_kept(records), approval_records)

FallbackTopState(state, claims, titles, eff, appr) ==
    [state |-> JStr(state), claims_received |-> claims, titles_distributed |-> titles,
     processing_efficiency |-> Fin(eff), approval_percentage |-> Fin(appr)]

\* lines 506-537: the fallback payload
all_india_fallback ==
    [success |-> FALSE,
     all_india_summary |->
        [total_claims_received |-> 5054316,
         total_titles_distributed |-> 2487347,
         total_individual_claims |-> 4823245,
         total_community_claims |-> 231071,
         total_individual_titles |-> 2398456,
         total_community_titles |-> 88891,
         national_processing_efficiency |-> Fin(4921),
         average_approval_percentage |-> Fin(5250),
         claims_pending |-> 2566969,
         total_states_covered |-> 28],
     top_states |->
        << FallbackTopState(Chars("Chhattisgarh"), 941977, 527833, 5603, 4690),
           FallbackTopState(Chars("Odisha"), 675637, 468371, 6932, 6933),
           FallbackTopState(Chars("Telangana"),
                            655249, 231456, 3532, 6208),
           FallbackTopState(Chars("Madhya Pradesh"),
                            627513, 294877, 4699, 6217),
           FallbackTopState(Chars("Andhra Pradesh"),
                            287979, 228119, 7921, 5371) >>,
     error |-> "Government API temporarily unavailable",
     metadata |->
        [source |-> "Fallback data system",
         api_status |-> "error_fallback",
         last_updated |-> Now]]

(***************************************************************************)
(* get_dashboard_widgets and get_fra_claims_2024                           *)
(***************************************************************************)
Widget(value, label, format, icon) ==
    [value |-> value, label |-> label, format |-> format, icon |-> icon]

\* the widgets that take every summary for a live one
dashboard_widgets_always_live(summary_response) ==
    [success |-> TRUE,
     widgets |->
        [total_claims |-> Widget(summary_response.all_india_summary.total_claims_received,
                                 "Total Claims Received", "number", "claims")],
     metadata |-> [last_updated |-> Now]]

\* lines 309-377: the payload built from the summary get_all_india_summary
\* returned
dashboard_widgets(summary_response) ==
    IF summary_response.success
    THEN [success |-> TRUE,
          widgets |->
             [total_claims |->
                 Widget(summary_response.all_india_summary.total_claims_received,
                        "Total Claims Received", "number", "claims"),
              total_titles |->
                 Widget(summary_response.all_india_summary.total_titles_distributed,
                        "Titles Distributed", "number", "titles"),
              processing_efficiency |->
                 Widget(summary_response.all_india_summary.national_processing_efficiency,
                        "National Processing Efficiency", "percentage", "efficiency"),
              average_approval |->
                 Widget(summary_response.all_india_summary.average_approval_percentage,
                        "Average Approval Rate", "percentage", "approval"),
              claims_pending |->
                 Widget(summary_response.all_india_summary.claims_pending,
                        "Claims Pending", "number", "pending"),
              states_covered |->
                 Widget(summary_response.all_india_summary.total_states_covered,
                        "States Covered", "number", "states")],
          top_performers |->
             SubSeq(summary_response.top_states, 1, Min(5, Len(summary_response.top_states))),
          breakdown |->
             [individual_claims |-> summary_response.all_india_summary.total_individual_claims,
              community_claims |-> summary_response.all_india_summary.total_community_claims,
              individual_titles |-> summary_response.all_india_summary.total_individual_titles,
              community_titles |-> summary_response.all_india_summary.total_community_titles],
          metadata |->
             [last_updated |-> Now,
              data_source |-> "Ministry of Tribal Affairs",
              coverage |-> "All India"]]
    ELSE [success |-> FALSE,
          widgets |->
             [total_claims |-> Widget(5054316, "Total Claims Received", "number", "claims"),
              total_titles |-> Widget(2487347, "Titles Distributed", "number", "titles"),
              processing_efficiency |->
                 Widget(Fin(4921), "National Processing Efficiency", "percentage", "efficiency"),
              average_approval |->
                 Widget(Fin(5250), "Average Approval Rate", "percentage", "approval"),
              claims_pending |-> Widget(2566969, "Claims Pending", "number", "pending"),
              states_covered |-> Widget(28, "States Covered", "number", "states")],
          error |-> "Government API temporarily unavailable"]

\* lines 149-166: the payload of get_fra_claims_2024 around the upstream
\* answer, returned as it came
fra_claims_2024(records, q) ==
    [data |-> [records |-> records],
     metadata |->
        [source |-> "Ministry of Tribal Affairs",
         dataset |-> "Latest FRA Claims and Titles (2024)",
         description |-> "State/District-wise Individual and Community Claims and Titles Distributed under FRA 2006",
         filters_applied |-> [state |-> q.state, district |-> q.district],
         pagination |-> [offset |-> q.offset, limit |-> q.limit, total_records |-> Len(records)],
         timestamp |-> Now]]

(***************************************************************************)
(* get_states_summary                                                      *)
(***************************************************************************)
\* lines 572-574: the records that are not skipped
states_kept(records) ==
    SelectSeq(records, LAMBDA r : Truthy(Get(r, "state", JStr(<<>>))))

\* an exception leaves safe_int while the records are processed
states_raises(records) ==
    \E i \in 1..Len(states_kept(records)) : \E k \in {K_claims_total, K_titles_total} :
        safe_int_states(Get(states_kept(records)[i], k, JInt(0)), 0).exc # "none"

\* lines 579-582
states_efficiency(titles_distributed, claims_received) ==
    IF claims_received > 0
    THEN Fin(RoundDiv(titles_distributed * 10000, claims_received))
    ELSE Fin(0)

\* lines 584-600: the summary of a state
state_entry(state, claims_received, titles_distributed, include_districts) ==
    IF include_districts
    THEN [state |-> state,
          total_claims_received |-> claims_received,
          total_titles_distributed |-> titles_distributed,
          processing_efficiency |-> states_efficiency(titles_distributed, claims_received),
          status |-> IF titles_distributed > 0 THEN "active"
                     ELSE IF claims_received > 0 THEN "pending" ELSE "inactive",
          data_as_on |-> "30.06.2024",
          districts |-> << [name |-> "Various Districts",
                            claims_received |-> claims_received,
                            titles_distributed |-> titles_distributed] >>]
    ELSE [state |-> state,
          total_claims_received |-> claims_received,
          total_titles_distributed |-> titles_distributed,
          processing_efficiency |-> states_efficiency(titles_distributed, claims_received),
          status |-> IF titles_distributed > 0 THEN "active"
                     ELSE IF claims_received > 0 THEN "pending" ELSE "inactive",
          data_as_on |-> "30.06.2024"]

\* lines 576-602: the summary of one record
state_summary(r, include_districts) ==
    state_entry(Get(r, "state", JStr(<<>>)),
                safe_int_states(Get(r, K_claims_total, JInt(0)), 0).val,
                safe_int_states(Get(r, K_titles_total, JInt(0)), 0).val,
                include_districts)

\* lines 616-634: the payload
states_payload(states_data, total_claims, total_titles, active_states, include_districts) ==
    [success |-> TRUE,
     states |-> states_data,
     summary |->
        [total_states |-> Len(states_data),
         total_claims_all_states |-> total_claims,
         total_titles_all_states |-> total_titles,
         average_processing_efficiency |->
            IF total_claims > 0 THEN Fin(RoundDiv(total_titles * 10000, total_claims))
            ELSE Fin(0),
         active_states |-> active_states,
         pending_states |-> Len(states_data) - active_states],
     metadata |->
        [source |-> "Ministry of Tribal Affairs - Latest FRA Claims",
         data_as_on |-> "30.06.2024",
         include_districts |-> include_districts,
         last_updated |-> Now]]

\* lines 610-614: the totals over the states that are returned
states_totals(states_data, include_districts) ==
    states_payload(
        states_data,
        Sum([i \in 1..Len(states_data) |-> states_data[i].total_claims_received]),
        Sum([i \in 1..Len(states_data) |-> states_data[i].total_titles_distributed]),
        Cardinality({i \in 1..Len(states_data) : states_data[i].status = "active"}),
        include_districts)

\* lines 604-608: the sort and the limit
\* the limit applied to the states in upstream order, without the sort
states_unsorted(all_states, limit, include_districts) ==
    states_totals(SubSeq(all_states, 1, Min(limit, Len(all_states))), include_districts)

states_sorted(all_states, limit, include_districts) ==
    states_totals(SubSeq(SortDesc(all_states, "total_claims_received"), 1,
                         Min(limit, Len(all_states))),
                  include_districts)

\* lines 572-602: the loop over the kept records
states_loop(kept, limit, include_districts) ==
    states_sorted([i \in 1..Len(kept) |-> state_summary(kept[i], include_districts)],
                  limit, include_districts)

\* lines 560-634: the live payload
states_live(records, limit, include_districts) ==
    states_loop(states_kept(records), limit, include_districts)

FallbackState(state, claims, titles, eff) ==
    [state |-> JStr(state), total_claims_received |-> claims,
     total_titles_distributed |-> titles, processing_efficiency |-> Fin(eff),
     status |-> "active", data_as_on |-> "30.06.2024"]

fallback_states ==
    << FallbackState(Chars("Odisha"), 675637, 468371, 6933),
       FallbackState(Chars("Chhattisgarh"), 456789, 298456, 6534),
       FallbackState(Chars("Madhya Pradesh"),
                     398745, 234567, 5884),
       FallbackState(Chars("Jharkhand"), 345678, 198765, 5749),
       FallbackState(Chars("Maharashtra"),
                     289456, 167890, 5802),
       FallbackState(Chars("Telangana"), 234567, 145678, 6208),
       FallbackState(Chars("Andhra Pradesh"),
                     198765, 106789, 5371),
       FallbackState(Chars("West Bengal"),
                     156789, 89456, 5707),
       FallbackState(Chars("Assam"), 134567, 51023, 3793),
       FallbackState(Chars("Tripura"), 98765, 67890, 6875) >>

\* lines 636-673: the fallback payload; error_message is str(e)
states_fallback(limit, error_message) ==
    LET selected_states == SubSeq(fallback_states, 1, Min(limit, Len(fallback_states)))
    IN  [success |-> FALSE,
         states |-> selected_states,
         error |-> "Government API temporarily unavailable",
         summary |->
            [total_states |-> Len(selected_states),
             total_claims_all_states |->
                Sum([i \in 1..Len(selected_states) |-> selected_states[i].total_claims_received]),
             total_titles_all_states |->
                Sum([i \in 1..Len(selected_states) |-> selected_states[i].total_titles_distributed]),
             average_processing_efficiency |-> Fin(5850),
             active_states |-> Len(selected_states),
             pending_states |-> 0],
         metadata |->
            [source |-> "Fallback data system",
             api_status |-> "error_fallback",
             error_message |-> error_message,
             last_updated |-> Now]]

(***************************************************************************)
(* String order and list.sort                                              *)
(***************************************************************************)
\* the characters of the model in code point order
CharOrder ==
    <<" ", "+", "-", ".", "/">> \o DigitChars \o <<":">> \o UpperChars \o <<"_">> \o LowerChars

\* a < b on Python strings
RECURSIVE StrLess(_, _)
StrLess(a, b) ==
    IF b = <<>> THEN FALSE
    ELSE IF a = <<>> THEN TRUE
    ELSE IF Head(a) = Head(b) THEN StrLess(Tail(a), Tail(b))
    ELSE IndexOf(Head(a), CharOrder) < IndexOf(Head(b), CharOrder)

\* the keys of the sort: [t |-> "str", s], [t |-> "int", n] or [t |-> "float", f]
\* floats: NaN compares false with everything
SortKeyLess(a, b) ==
    CASE a.t = "str" -> StrLess(a.s, b.s)
      [] a.t = "float" ->
            IF a.f.cls = "nan" \/ b.f.cls = "nan" THEN FALSE
            ELSE IF a.f.cls = "inf" /\ b.f.cls = "inf" THEN a.f.h < b.f.h
            ELSE IF a.f.cls = "inf" THEN a.f.h < 0
            ELSE IF b.f.cls = "inf" THEN b.f.h > 0
            ELSE a.f.h < b.f.h
      [] OTHER -> a.n < b.n

\* list.sort(key=..., reverse=reverse) when no comparison raises: stable in
\* both directions; keys[i] is the key of xs[i]
StableSort(xs, keys, reverse) ==
    LET n == Len(xs)
        before(j, i) ==
            \/ IF reverse THEN SortKeyLess(keys[i], keys[j]) ELSE SortKeyLess(keys[j], keys[i])
            \/ /\ ~SortKeyLess(keys[i], keys[j])
               /\ ~SortKeyLess(keys[j], keys[i])
               /\ j < i
        pos(i) == Cardinality({j \in 1..n : j # i /\ before(j, i)}) + 1
    IN  [p \in 1..n |-> xs[CHOOSE i \in 1..n : pos(i) = p]]

ListPermutations(xs) ==
    { [i \in 1..Len(xs) |-> xs[f[i]]] :
        f \in {g \in [1..Len(xs) -> 1..Len(xs)] : \A i, j \in 1..Len(xs) : g[i] = g[j] => i = j} }

(***************************************************************************)
(* get_comprehensive_claims                                                *)
(***************************************************************************)
\* datetime.now().strftime("%Y-%m-%d")
Today == Chars("2024-07-01")

S_NA == JStr(<<"N", "/", "A">>)

\* float(value) of lines 734-738: [ok |-> FALSE] is a ValueError or a TypeError
float_of_json(value) ==
    CASE value.t = "str" -> float(value.s)
      [] value.t = "int" -> Parsed(Fin(100 * value.n))
      [] value.t = "float" -> Parsed(Fin(value.n))
      [] OTHER -> [ok |-> FALSE, val |-> NaN]

\* the indices of the approval records stored under state_name
lookup_hits(approval_records, state_name) ==
    {i \in 1..Len(approval_records) :
        /\ Truthy(Get(approval_records[i], "name_of_state", JStr(<<>>)))
        /\ Get(approval_records[i], "name_of_state", JStr(<<>>)) = state_name}

\* lines 735-738: float(...) inside try / except (ValueError, TypeError)
lookup_value(p) == IF p.ok THEN p.val ELSE Fin(0)

\* lines 729-738 and 767: approval_lookup.get(state_name, 0); a later record of
\* the same state overwrites an earlier one
approval_lookup(approval_records, state_name) ==
    IF lookup_hits(approval_records, state_name) = {} THEN Fin(0)
    ELSE lookup_value(float_of_json(
            Get(approval_records[CHOOSE i \in lookup_hits(approval_records, state_name) :
                                    \A j \in lookup_hits(approval_records, state_name) : j <= i],
                K_percentage, JInt(0))))

\* lines 747-750: the district and search filters let the record through
claims_pass_text(r, q) ==
    /\ Truthy(q.district) =>
          lower(q.district.s) = lower(Get(r, "district", JStr(<<>>)).s)
    /\ Truthy(q.search) =>
          Contains(lower(Get(r, "state", JStr(<<>>)).s), lower(q.search.s))

\* line 762
record_status(titles_distributed, claims_received) ==
    IF titles_distributed > 0 THEN "distributed"
    ELSE IF claims_received > 0 THEN "received" ELSE "pending"

\* lines 763-764 and 799-805: the status and date filters let a record with
\* these counts through
\* the filters with one more: only the records of the requested year pass
claims_pass_counts_of_year(claims_received, titles_distributed, q) ==
    /\ Truthy(q.status) =>
          lower(q.status.s) = lower(Chars(record_status(titles_distributed, claims_received)))
    /\ Truthy(q.date_from) => ~StrLess(Today, q.date_from.s)
    /\ Truthy(q.date_to) => ~StrLess(q.date_to.s, Today)
    /\ Truthy(q.year) => q.year.n = 2024

claims_pass_counts(claims_received, titles_distributed, q) ==
    /\ Truthy(q.status) =>
          lower(q.status.s) = lower(Chars(record_status(titles_distributed, claims_received)))
    /\ Truthy(q.date_from) => ~StrLess(Today, q.date_from.s)
    /\ Truthy(q.date_to) => ~StrLess(q.date_to.s, Today)

claims_pass_rest(r, q) ==
    claims_pass_counts(safe_int_claims(Get(r, K_claims_total, JNull), 0).val,
                       safe_int_claims(Get(r, K_titles_total, JNull), 0).val, q)

\* .lower() is called on a value that is not a string: AttributeError
claims_text_raises(r, q) ==
    \/ Truthy(q.district) /\ Get(r, "district", JStr(<<>>)).t # "str"
    \/ /\ Truthy(q.district) =>
             lower(q.district.s) = lower(Get(r, "district", JStr(<<>>)).s)
       /\ Truthy(q.search)
       /\ Get(r, "state", JStr(<<>>)).t # "str"

\* an exception leaves the processing of record r
claims_record_raises(r, q) ==
    \/ claims_text_raises(r, q)
    \/ /\ claims_pass_text(r, q)
       /\ \/ \E k \in CountKeys : safe_int_claims(Get(r, k, JNull), 0).exc # "none"
          \/ safe_int_claims(Get(r, "area_in_hectare", JInt(0)), 0).exc # "none"

claims_raises(records, q) ==
    \E i \in 1..Len(records) : claims_record_raises(records[i], q)

\* lines 769-797: the claim record built from the coerced counts
claim_entry(r, ident, n, claims_received, titles_distributed, approval_percentage) ==
    [id |-> ident,
     claim_id |-> ident,
     state |-> Get(r, "state", JStr(<<>>)),
     district |-> Get(r, "district", JStr(<<>>)),
     applicant_name |-> [label |-> "Government Record", number |-> n + 1],
     father_name |-> S_NA,
     tehsil |-> S_NA,
     village |-> S_NA,
     claim_type |-> "Mixed",
     status |-> record_status(titles_distributed, claims_received),
     individual_claims_received |-> safe_int_claims(Get(r, K_claims_individual, JNull), 0).val,
     community_claims_received |-> safe_int_claims(Get(r, K_claims_community, JNull), 0).val,
     total_claims_received |-> claims_received,
     individual_titles_distributed |-> safe_int_claims(Get(r, K_titles_individual, JNull), 0).val,
     community_titles_distributed |-> safe_int_claims(Get(r, K_titles_community, JNull), 0).val,
     total_titles_distributed |-> titles_distributed,
     application_date |-> "2024-06-30",
     last_updated |-> Now,
     survey_number |-> S_NA,
     verification_status |-> "Verified",
     source |-> "Ministry of Tribal Affairs - 2024",
     year |-> "2024",
     area_in_hectares |-> safe_int_claims(Get(r, "area_in_hectare", JInt(0)), 0).val,
     approval_percentage |-> approval_percentage,
     processing_efficiency |-> efficiency(titles_distributed, claims_received),
     data_quality |-> "verified",
     raw_government_data |-> r]

\* lines 753-797: the claim record of r when n records were appended before it
claim_record(r, n, approval_records) ==
    claim_entry(r,
                Get(r, "_id", JStr(Chars("claim_") \o NatToChars(n))),
                n,
                safe_int_claims(Get(r, K_claims_total, JNull), 0).val,
                safe_int_claims(Get(r, K_titles_total, JNull), 0).val,
                approval_lookup(approval_records, Get(r, "state", JStr(<<>>))))

\* lines 745-807: one pass of the loop, before holds what was appended so far
process_record(before, r, approval_records, q) ==
    IF claims_pass_text(r, q) /\ claims_pass_rest(r, q)
    THEN Append(before, claim_record(r, Len(before), approval_records))
    ELSE before

\* lines 740-807: all_processed_claims
RECURSIVE all_processed_claims(_, _, _)
all_processed_claims(records, approval_records, q) ==
    IF records = <<>> THEN <<>>
    ELSE process_record(all_processed_claims(SubSeq(records, 1, Len(records) - 1),
                                             approval_records, q),
                        records[Len(records)], approval_records, q)

\* list[offset:offset + limit]
Slice(xs, offset, limit) == SubSeq(xs, offset + 1, Min(offset + limit, Len(xs)))

historical_record_raises(r) ==
    \E k \in {"individual_claims_received", "community_claims_received",
              "individual_titles_distributed", "community_titles_distributed",
              "area_in_hectare"} :
        safe_int_claims(Get(r, k, JInt(0)), 0).exc # "none"

\* lines 834-860: the claim record built from the coerced counts
historical_entry(r, ident, n, ic, cc, it, ct) ==
    [id |-> ident,
     claim_id |-> ident,
     state |-> Get(r, "state", JStr(Chars("Unknown"))),
     district |-> Get(r, "district", JStr(Chars("Unknown"))),
     applicant_name |-> [label |-> "Historical Record", number |-> n + 1],
     father_name |-> S_NA,
     tehsil |-> S_NA,
     village |-> S_NA,
     claim_type |-> "Historical",
     status |-> "historical",
     individual_claims_received |-> ic,
     community_claims_received |-> cc,
     total_claims_received |-> ic + cc,
     individual_titles_distributed |-> it,
     community_titles_distributed |-> ct,
     total_titles_distributed |-> it + ct,
     application_date |-> "2017-11-30",
     last_updated |-> "2017-11-30",
     survey_number |-> S_NA,
     verification_status |-> "Historical",
     source |-> "Ministry of Tribal Affairs - Historical (2017)",
     year |-> "2017",
     area_in_hectares |-> safe_int_claims(Get(r, "area_in_hectare", JInt(0)), 0).val,
     approval_percentage |-> Fin(0),
     processing_efficiency |-> Fin(0),
     data_quality |-> "historical",
     raw_government_data |-> r]

\* lines 829-860: the claim record of a historical record, n records appended before it
historical_record(r, n) ==
    historical_entry(r,
                     Get(r, "_id", JStr(Chars("historical_")
                                       \o NatToChars(n))),
                     n,
                     safe_int_claims(Get(r, "individual_claims_received", JInt(0)), 0).val,
                     safe_int_claims(Get(r, "community_claims_received", JInt(0)), 0).val,
                     safe_int_claims(Get(r, "individual_titles_distributed", JInt(0)), 0).val,
                     safe_int_claims(Get(r, "community_titles_distributed", JInt(0)), 0).val)

\* the index of the first record that raises, Len(records) + 1 when none does
historical_stop(records) ==
    IF \A i \in 1..Len(records) : ~historical_record_raises(records[i])
    THEN Len(records) + 1
    ELSE CHOOSE i \in 1..Len(records) :
            /\ historical_record_raises(records[i])
            /\ \A j \in 1..(i - 1) : ~historical_record_raises(records[j])

\* lines 828-864: the records appended to the empty page before the loop ends
\* or an exception leaves it (the exception is absorbed at line 863)
historical_claims(records) ==
    [i \in 1..(historical_stop(records) - 1) |-> historical_record(records[i], i - 1)]

\* the sort_by values of the if/elif chain of lines 880-891
SortAllowList ==
    {Chars("state"), Chars("district"), Chars("claims_received"), Chars("titles_distributed"),
     Chars("processing_efficiency"), Chars("last_updated")}

\* the key of one claim under an allow-listed sort_by
sort_key(sort_by, claim) ==
    CASE sort_by = Chars("state") -> claim.state
      [] sort_by = Chars("district") -> claim.district
      [] sort_by = Chars("claims_received") -> JInt(claim.total_claims_received)
      [] sort_by = Chars("titles_distributed") -> JInt(claim.total_titles_distributed)
      [] sort_by = Chars("last_updated") ->
            \* the timestamps of the records of one page are one instant
            JInt(0)
      [] OTHER -> [t |-> "float", f |-> claim.processing_efficiency]

\* list.sort on keys: a comparison of keys that are not all strings or all
\* numbers raises TypeError, which is caught and leaves the list in some order
sort_with_keys(paginated_claims, keys, reverse_order) ==
    IF Len(keys) >= 2 /\ \E i, j \in 1..Len(keys) : keys[i].t # keys[j].t \/ keys[i].t = "null"
    THEN ListPermutations(paginated_claims)
    ELSE {StableSort(paginated_claims, keys, reverse_order)}

\* a sort that takes every sort_by for a key, not only those of the allow-list
sorted_claims_any_key(paginated_claims, q) ==
    IF ~(Truthy(q.sort_by) /\ paginated_claims # <<>>)
    THEN {paginated_claims}
    ELSE sort_with_keys(
            paginated_claims,
            [i \in 1..Len(paginated_claims) |-> sort_key(q.sort_by.s, paginated_claims[i])],
            lower(q.sort_order.s) = Chars("desc"))

\* lines 876-893: the lists the sort may leave in paginated_claims
sorted_claims(paginated_claims, q) ==
    IF ~(Truthy(q.sort_by) /\ paginated_claims # <<>>) \/ q.sort_by.s \notin SortAllowList
    THEN {paginated_claims}
    ELSE sort_with_keys(
            paginated_claims,
            [i \in 1..Len(paginated_claims) |-> sort_key(q.sort_by.s, paginated_claims[i])],
            lower(q.sort_order.s) = Chars("desc"))

ClaimField(claims, field) == [i \in 1..Len(claims) |-> claims[i][field]]

\* the ceiling of total_count / limit, without the floor of 1 of line 897
total_pages_ceiling(total_count, limit) == (total_count + limit - 1) \div limit

\* line 897
total_pages(total_count, limit) == Max((total_count + limit - 1) \div limit, 1)

\* lines 895-938: the response
claims_response(claims, total_count, q, sums) ==
    [success |-> TRUE,
     claims |-> claims,
     total_count |-> total_count,
     pagination |->
        [total_count |-> total_count,
         current_page |-> (q.offset \div q.limit) + 1,
         total_pages |-> total_pages(total_count, q.limit),
         has_next |-> q.offset + q.limit < total_count,
         has_previous |-> q.offset > 0,
         offset |-> q.offset,
         limit |-> q.limit,
         returned |-> Len(claims)],
     summary |->
        [total_claims_received |-> sums.claims,
         total_titles_distributed |-> sums.titles,
         total_individual_claims |-> sums.individual_claims,
         total_community_claims |-> sums.community_claims,
         overall_processing_efficiency |-> efficiency(sums.titles, sums.claims),
         states_covered |-> Cardinality({claims[i].state : i \in 1..Len(claims)})],
     filters_applied |->
        [state |-> q.state,
         district |-> q.district,
         year |-> q.year,
         status |-> q.status,
         date_range |-> IF Truthy(q.date_from) \/ Truthy(q.date_to)
                        THEN [from |-> q.date_from, to |-> q.date_to]
                        ELSE [from |-> JNull, to |-> JNull],
         search |-> q.search],
     metadata |->
        [source |-> "Multiple Ministry of Tribal Affairs APIs",
         data_sources |-> <<"Latest Claims 2024", "Approval Percentages", "Historical Data 2017">>,
         last_updated |-> Now,
         data_quality |-> "government_verified"],
     timestamp |-> Now]

\* a summary that leaves the last record of the page out of its sums
claims_payload_without_last(page, claims, total_count, q) ==
    claims_response(claims, total_count, q,
                    [claims |-> Sum(ClaimField(Slice(page, 0, Len(page) - 1),
                                               "total_claims_received")),
                     titles |-> Sum(ClaimField(page, "total_titles_distributed")),
                     individual_claims |-> Sum(ClaimField(page, "individual_claims_received")),
                     community_claims |-> Sum(ClaimField(page, "community_claims_received"))])

\* lines 866-870 and 895-938: the payload; page is paginated_claims when the
\* summary is computed, claims is the list after the sort
claims_payload(page, claims, total_count, q) ==
    claims_response(claims, total_count, q,
                    [claims |-> Sum(ClaimField(page, "total_claims_received")),
                     titles |-> Sum(ClaimField(page, "total_titles_distributed")),
                     individual_claims |-> Sum(ClaimField(page, "individual_claims_received")),
                     community_claims |-> Sum(ClaimField(page, "community_claims_received"))])

(***************************************************************************)
(* The requests of the model                                               *)
(***************************************************************************)
StatesQueries == [limit : {1, 10}, include_districts : BOOLEAN]

BaseQuery ==
    [state |-> JNull, district |-> JNull, year |-> JNull, status |-> JNull,
     date_from |-> JNull, date_to |-> JNull, search |-> JNull,
     limit |-> 10, offset |-> 0, sort_by |-> JNull, sort_order |-> JStr(Chars("asc"))]

ClaimsQueries ==
    { BaseQuery,
      [BaseQuery EXCEPT !.state = JStr(Chars("Odisha"))],
      [BaseQuery EXCEPT !.district = JStr(<<"p", "u", "r", "i">>)],
      [BaseQuery EXCEPT !.status = JStr(<<"D", "i", "s", "t", "r", "i", "b", "u", "t", "e", "d">>)],
      [BaseQuery EXCEPT !.search = JStr(<<"D", "I", "S", "H">>)],
      [BaseQuery EXCEPT !.year = JInt(2020)],
      [BaseQuery EXCEPT !.limit = 1],
      [BaseQuery EXCEPT !.limit = 1, !.offset = 1],
      [BaseQuery EXCEPT !.offset = 5],
      [BaseQuery EXCEPT !.date_from = JStr(<<"2", "0", "3", "0", "-", "0", "1", "-", "0", "1">>)],
      [BaseQuery EXCEPT !.sort_by = JStr(Chars("claims_received")),
                        !.sort_order = JStr(<<"D", "E", "S", "C">>)],
      [BaseQuery EXCEPT !.sort_by = JStr(Chars("claims_received")),
                        !.sort_order = JStr(Chars("desc")), !.limit = 1],
      [BaseQuery EXCEPT !.sort_by = JStr(Chars("state"))],
      [BaseQuery EXCEPT !.sort_by = JStr(<<"b", "o", "g", "u", "s">>)] }

(***************************************************************************)
(* The system clock                                                        *)
(***************************************************************************)
\* time passes
tick ==
    /\ clock < MaxClock
    /\ clock' = clock + 1
    /\ UNCHANGED <<op, params, pc, dataset, retries, hist, sleeps, frames, outcome, locals, result,
                   coerceVars, parked, requests, responses>>

(***************************************************************************)
(* RateLimitMiddleware                                                     *)
(***************************************************************************)
\* the values of get_client_ip
Clients == {"10.0.0.1", "10.0.0.2"}

\* dispatch with a cutoff that keeps the requests made exactly window_seconds
\* ago
rate_limit_dispatch_inclusive(client_ip) ==
    /\ Len(responses) < MaxDispatches
    /\ LET kept == SelectSeq(requests[client_ip], LAMBDA t : t >= clock - window_seconds) IN
       IF Len(kept) >= max_requests
       THEN /\ requests' = [requests EXCEPT ![client_ip] = kept]
            /\ responses' = Append(responses, [client_ip |-> client_ip, now |-> clock,
                                               status_code |-> 429, remaining |-> 0])
       ELSE /\ requests' = [requests EXCEPT ![client_ip] = Append(kept, clock)]
            /\ responses' = Append(responses, [client_ip |-> client_ip, now |-> clock,
                                               status_code |-> 0, remaining |-> 0])
    /\ UNCHANGED <<op, params, pc, dataset, retries, hist, sleeps, frames, outcome, locals, result,
                   coerceVars, parked, clock>>

\* lines 60-86: dispatch up to the 429 response or up to await call_next; no
\* await stands between the reading of the clock and the append
rate_limit_dispatch(client_ip) ==
    /\ Len(responses) < MaxDispatches
    /\ LET kept == SelectSeq(requests[client_ip], LAMBDA t : t > clock - window_seconds) IN
       IF Len(kept) >= max_requests
       THEN /\ requests' = [requests EXCEPT ![client_ip] = kept]
            /\ responses' = Append(responses, [client_ip |-> client_ip, now |-> clock,
                                               status_code |-> 429, remaining |-> 0])
       ELSE /\ requests' = [requests EXCEPT ![client_ip] = Append(kept, clock)]
            /\ responses' = Append(responses, [client_ip |-> client_ip, now |-> clock,
                                               status_code |-> 0, remaining |-> 0])
    /\ UNCHANGED <<op, params, pc, dataset, retries, hist, sleeps, frames, outcome, locals, result,
                   coerceVars, parked, clock>>

\* lines 86-94: call_next returned the response of the application, here a
\* 200; the headers are computed from the list as it is now
call_next_returned(i) ==
    /\ responses[i].status_code = 0
    /\ responses' = [responses EXCEPT
                        ![i].status_code = 200,
                        ![i].remaining =
                            Max(0, max_requests - Len(requests[responses[i].client_ip]))]
    /\ UNCHANGED <<op, params, pc, dataset, retries, hist, sleeps, frames, outcome, locals, result,
                   coerceVars, parked, requests, clock>>

(***************************************************************************)
(* The handlers, one action per stretch between two awaits                 *)
(***************************************************************************)
\* the handler returns r; its locals are those of the frame that returned,
\* and the frame of its last make_request call is gone
finish(r, frame_locals) ==
    /\ result' = r
    /\ pc' = "done"
    /\ locals' = frame_locals
    /\ dataset' = "none"
    /\ retries' = 0
    /\ hist' = <<>>
    /\ sleeps' = <<>>
    /\ frames' = <<>>
    /\ outcome' = NoOutcome

\* get_all_india_summary returns summary: to the routing layer, or to the
\* get_dashboard_widgets that awaits it
all_india_return(summary, frame_locals) ==
    IF op = "widgets"
    THEN finish(Respond(dashboard_widgets(summary)), [summary_response |-> summary])
    ELSE finish(Respond(summary), frame_locals)

\* get_all_india_summary up to the first make_request
all_india_request ==
    /\ pc = "idle"
    /\ op' = "all_india"
    /\ params' = NoParams
    /\ call_make_request("primary")
    /\ UNCHANGED <<locals, result, coerceVars, parked, requests, responses, clock>>

\* line 405 returned: the approval dataset is requested
all_india_primary ==
    /\ op \in {"all_india", "widgets"} /\ pc = "returned" /\ dataset = "primary"
    /\ \E data \in Payloads("primary") :
          /\ locals' = [data |-> data]
          /\ call_make_request("approval")
    /\ UNCHANGED <<op, params, result, coerceVars, parked, requests, responses, clock>>

\* line 415 returned: lines 417-504, or the except branch when safe_int raises
all_india_approval_done ==
    /\ op \in {"all_india", "widgets"} /\ pc = "returned" /\ dataset = "approval"
    /\ \E approval_data \in Payloads("approval") :
          all_india_return(IF all_india_raises(locals.data)
                           THEN all_india_fallback
                           ELSE all_india_live(locals.data, approval_data),
                           [data |-> locals.data, approval_data |-> approval_data])
    /\ UNCHANGED <<op, params, coerceVars, parked, requests, responses, clock>>

\* lines 506-537: a make_request call raised
all_india_except ==
    /\ op \in {"all_india", "widgets"} /\ pc = "raised"
    /\ all_india_return(all_india_fallback, locals)
    /\ UNCHANGED <<op, params, coerceVars, parked, requests, responses, clock>>

\* get_dashboard_widgets up to the first make_request of the
\* get_all_india_summary it awaits (line 307)
widgets_request ==
    /\ pc = "idle"
    /\ op' = "widgets"
    /\ params' = NoParams
    /\ call_make_request("primary")
    /\ UNCHANGED <<locals, result, coerceVars, parked, requests, responses, clock>>

\* get_fra_claims_2024 up to its make_request (lines 134-147)
fra_claims_2024_request ==
    /\ pc = "idle"
    /\ op' = "fra_claims_2024"
    /\ params' = [state |-> JNull, district |-> JNull, limit |-> 10, offset |-> 0]
    /\ call_make_request("primary")
    /\ UNCHANGED <<locals, result, coerceVars, parked, requests, responses, clock>>

\* line 147 returned, or raised: the handler has no try block, the
\* HTTPException of make_request reaches the routing layer
fra_claims_2024_done ==
    /\ op = "fra_claims_2024" /\ pc \in {"returned", "raised"}
    /\ IF pc = "returned"
       THEN \E data \in Payloads("primary") :
               finish(Respond(fra_claims_2024(data, params)), [data |-> data])
       ELSE finish(Fail(outcome.status_code, outcome.detail), locals)
    /\ UNCHANGED <<op, params, coerceVars, parked, requests, responses, clock>>

\* get_states_summary up to its make_request
states_request(q) ==
    /\ pc = "idle"
    /\ op' = "states"
    /\ params' = q
    /\ call_make_request("primary")
    /\ UNCHANGED <<locals, result, coerceVars, parked, requests, responses, clock>>

\* line 558 returned: lines 560-634, or the except branch when safe_int raises
states_primary ==
    /\ op = "states" /\ pc = "returned"
    /\ \E data \in Payloads("primary") :
          finish(Respond(IF states_raises(data)
                         THEN states_fallback(params.limit, "OverflowError")
                         ELSE states_live(data, params.limit, params.include_districts)),
                 [data |-> data])
    /\ UNCHANGED <<op, params, coerceVars, parked, requests, responses, clock>>

\* lines 636-673: the make_request call raised
states_except ==
    /\ op = "states" /\ pc = "raised"
    /\ finish(Respond(states_fallback(params.limit, "HTTPException")), locals)
    /\ UNCHANGED <<op, params, coerceVars, parked, requests, responses, clock>>

\* get_comprehensive_claims up to the first make_request
claims_request(q) ==
    /\ pc = "idle"
    /\ op' = "claims"
    /\ params' = q
    /\ call_make_request("primary")
    /\ UNCHANGED <<locals, result, coerceVars, parked, requests, responses, clock>>

\* line 708 returned: the approval dataset is requested
claims_primary ==
    /\ op = "claims" /\ pc = "returned" /\ dataset = "primary"
    /\ \E all_data \in Payloads("primary") :
          /\ locals' = [all_data |-> all_data]
          /\ call_make_request("approval")
    /\ UNCHANGED <<op, params, result, coerceVars, parked, requests, responses, clock>>

\* lines 866-938: the summary, the sort and the response
claims_respond(page, total_count, frame_locals) ==
    \E claims \in sorted_claims(page, params) :
        finish(Respond(claims_payload(page, claims, total_count, params)), frame_locals)

claims_failure == Fail(500, "Failed to fetch government data")

\* lines 810-864: the page is cut; an empty page without a state filter asks
\* for the historical dataset
\* the historical dataset asked for whenever the page is empty
claims_paginate_any_state(all, paginated_claims, frame_locals) ==
    IF paginated_claims = <<>>
    THEN /\ locals' = [total_count |-> Len(all)]
         /\ call_make_request("historical")
         /\ UNCHANGED result
    ELSE claims_respond(paginated_claims, Len(all), frame_locals)

claims_paginate(all, paginated_claims, frame_locals) ==
    IF paginated_claims = <<>> /\ ~Truthy(params.state)
    THEN /\ locals' = [total_count |-> Len(all)]
         /\ call_make_request("historical")
         /\ UNCHANGED result
    ELSE claims_respond(paginated_claims, Len(all), frame_locals)

\* lines 720-813: the records are processed
claims_process(all, approval_data) ==
    claims_paginate(all, Slice(all, params.offset, params.limit),
                    [all_data |-> locals.all_data, approval_data |-> approval_data,
                     total_count |-> Len(all)])

\* line 718 returned: lines 720-813, then the historical request of line 826
\* or the response
claims_approval ==
    /\ op = "claims" /\ pc = "returned" /\ dataset = "approval"
    /\ \E approval_data \in Payloads("approval") :
          IF claims_raises(locals.all_data, params)
          THEN finish(claims_failure, locals)
          ELSE claims_process(all_processed_claims(locals.all_data, approval_data, params),
                              approval_data)
    /\ UNCHANGED <<op, params, coerceVars, parked, requests, responses, clock>>

\* line 826 returned or raised: lines 828-864, then the response
claims_historical ==
    /\ op = "claims" /\ pc \in {"returned", "raised"} /\ dataset = "historical"
    /\ IF pc = "returned"
       THEN \E historical_data \in Payloads("historical") :
               claims_respond(historical_claims(historical_data), locals.total_count,
                              [total_count |-> locals.total_count,
                               historical_data |-> historical_data])
       ELSE claims_respond(<<>>, locals.total_count, locals)
    /\ UNCHANGED <<op, params, coerceVars, parked, requests, responses, clock>>

\* lines 872-874: the primary or the approval make_request raised
claims_except ==
    /\ op = "claims" /\ pc = "raised" /\ dataset \in {"primary", "approval"}
    /\ finish(claims_failure, locals)
    /\ UNCHANGED <<op, params, coerceVars, parked, requests, responses, clock>>

\* handlers that find the locals of the request before theirs
next_request_keeping_locals ==
    /\ pc = "done"
    /\ pc' = "idle"
    /\ op' = "none"
    /\ params' = NoParams
    /\ result' = NoResult
    /\ UNCHANGED <<locals, dataset, retries, hist, sleeps, frames, outcome, coerceVars, parked,
                   requests, responses, clock>>

\* the response is handed to the routing layer; the next request may come
next_request ==
    /\ pc = "done"
    /\ pc' = "idle"
    /\ op' = "none"
    /\ params' = NoParams
    /\ result' = NoResult
    /\ locals' = NoLocals
    /\ UNCHANGED <<dataset, retries, hist, sleeps, frames, outcome, coerceVars, parked, requests, responses, clock>>

Init ==
    /\ op = "none"
    /\ params = NoParams
    /\ pc = "idle"
    /\ dataset = "none"
    /\ retries = 0
    /\ hist = <<>>
    /\ sleeps = <<>>
    /\ frames = <<>>
    /\ outcome = NoOutcome
    /\ locals = NoLocals
    /\ result = NoResult
    /\ cin = JNull
    /\ cdef = 0
    /\ cout = <<>>
    /\ parked = [pc |-> "none"]
    /\ requests = [client_ip \in Clients |-> <<>>]
    /\ responses = <<>>
    /\ clock = 0

Next ==
    \/ all_india_request
    \/ all_india_primary
    \/ all_india_approval_done
    \/ all_india_except
    \/ \E q \in StatesQueries : states_request(q)
    \/ states_primary
    \/ states_except
    \/ \E q \in ClaimsQueries : claims_request(q)
    \/ claims_primary
    \/ claims_approval
    \/ claims_historical
    \/ claims_except
    \/ make_request
    \/ next_request

Spec == Init /\ [][Next]_vars

\* the three aggregation handlers with the two handlers of the router that
\* stand in front of them: the dashboard widgets and the latest claims
NextRouter ==
    \/ Next
    \/ widgets_request
    \/ fra_claims_2024_request
    \/ fra_claims_2024_done

SpecRouter == Init /\ [][NextRouter]_vars

\* requests for the all-India summary and for the comprehensive claims, one
\* after the other, while time passes
NextClock ==
    \/ all_india_request
    \/ all_india_primary
    \/ all_india_approval_done
    \/ all_india_except
    \/ \E q \in {BaseQuery, [BaseQuery EXCEPT !.limit = 1, !.offset = 1]} : claims_request(q)
    \/ claims_primary
    \/ claims_approval
    \/ claims_historical
    \/ claims_except
    \/ make_request
    \/ next_request
    \/ tick

SpecClock == Init /\ [][NextClock]_vars

\* two make_request calls on gov_api, interleaved at their awaits
NextConcurrent ==
    \/ concurrent_calls
    \/ make_request
    \/ switch

SpecConcurrent == Init /\ [][NextConcurrent]_vars

\* concurrent requests of two clients through RateLimitMiddleware while time
\* passes
NextRateLimit ==
    \/ \E client_ip \in Clients : rate_limit_dispatch(client_ip)
    \/ \E i \in 1..Len(responses) : call_next_returned(i)
    \/ tick

SpecRateLimit == Init /\ [][NextRateLimit]_vars

(***************************************************************************)
(* The coercion helpers applied alone: one value and one default are       *)
(* chosen, then each helper is applied to them once                        *)
(***************************************************************************)
\* the values an upstream field may hold
RawValues ==
    { JNull, JInt(0), JInt(7), JInt(-4), JFloat(6930), JFloat(-250),
      JStr(<<>>), JStr(<<"N", "A">>), JStr(<<"n", "a">>), JStr(<<"N", ".", "A", ".">>),
      JStr(<<"n", ".", "a", ".">>), JStr(<<"N", "U", "L", "L">>), JStr(<<"n", "u", "l", "l">>),
      JStr(<<" ", "N", "A">>), JStr(<<"a", "b", "c">>), JStr(<<"1", "2">>),
      JStr(<<"-", "5">>), JStr(<<"+", "5">>), JStr(<<"3", ".", "7", "5">>),
      JStr(<<"-", "3", ".", "7">>), JStr(<<" ", "1", "2", " ">>), JStr(<<".", "5">>),
      JStr(<<"5", ".">>), JStr(<<"1", ".", "2", ".", "3">>), JStr(<<"-">>),
      JStr(<<"1", "e", "2">>), JStr(<<"1", "e", "-", "2">>), JStr(<<"1", "e">>),
      JStr(<<"1", "e", "9", "9", "9">>), JStr(<<"-", "1", "e", "9", "9", "9">>),
      JStr(<<"i", "n", "f">>), JStr(<<"-", "i", "n", "f">>),
      JStr(<<"I", "n", "f", "i", "n", "i", "t", "y">>), JStr(<<"n", "a", "n">>) }

\* one helper is applied to the chosen value
coerce(name) ==
    /\ name \notin DOMAIN cout
    /\ cout' = cout @@ (name :> CASE name = "safe_int" -> safe_int(cin, cdef)
                                   [] name = "safe_int_states" -> safe_int_states(cin, cdef)
                                   [] name = "safe_int_claims" -> safe_int_claims(cin, cdef)
                                   [] OTHER -> safe_float(cin, Fin(100 * cdef)))
    /\ UNCHANGED <<op, params, pc, dataset, retries, hist, sleeps, frames, outcome, locals, result,
                   cin, cdef, parked, requests, responses, clock>>

InitCoerce ==
    /\ op = "none"
    /\ params = NoParams
    /\ pc = "idle"
    /\ dataset = "none"
    /\ retries = 0
    /\ hist = <<>>
    /\ sleeps = <<>>
    /\ frames = <<>>
    /\ outcome = NoOutcome
    /\ locals = NoLocals
    /\ result = NoResult
    /\ cin \in RawValues
    /\ cdef \in {0, 9}
    /\ cout = <<>>
    /\ parked = [pc |-> "none"]
    /\ requests = [client_ip \in Clients |-> <<>>]
    /\ responses = <<>>
    /\ clock = 0

NextCoerce ==
    \E name \in {"safe_int", "safe_int_states", "safe_int_claims", "safe_float"} : coerce(name)

SpecCoerce == InitCoerce /\ [][NextCoerce]_vars

(***************************************************************************)
(* Properties                                                              *)
(***************************************************************************)
\* C1: a make_request call issues at most max_retries + 1 = 3 attempts; after
\* the third attempt the call has returned a dataset or raised, so a fourth
\* attempt is never issued.
C1_AtMostThreeAttempts ==
    /\ max_retries + 1 = 3
    /\ Len(hist) <= 3
    /\ Len(hist) = 3 => (pc \in {"returned", "raised"} /\ outcome.kind \in {"return", "raise"})
    /\ pc = "request" => Len(hist) = retries

\* C1, reached: a call whose third attempt was answered
C1_ThirdAttemptAnswered ==
    /\ pc = "raised"
    /\ hist = <<Timeout, Status(503), Timeout>>

\* C2: in a call whose attempts are answered 503, 503, 200 the call sleeps
\* 1 s and then 2 s, returns the payload, and the operation that issued the
\* call answers with success = TRUE, never with fallback data or an error.
C2_RetrySequenceAnswersLive ==
    [][(pc = "returned" /\ hist = <<Status(503), Status(503), Status(200)>>) =>
          /\ sleeps = <<1, 2>>
          /\ outcome.kind = "return"
          /\ pc' = "done" => (result'.kind = "response" /\ result'.payload.success = TRUE)]_vars

\* C3: an attempt answered with a status that is neither 200 nor one of 500,
\* 502, 503, 504, 429 ends the call at once, with no sleep and no further
\* attempt, whatever the retry count; the call goes on to a further attempt
\* only after a retryable status or a timeout and with fewer than max_retries
\* retries made.
C3_NonRetryableFailsAtOnce ==
    [][(pc = "request" /\ Len(hist') = Len(hist) + 1) =>
          /\ (/\ hist'[Len(hist')].kind = "status"
              /\ hist'[Len(hist')].code \notin {200, 500, 502, 503, 504, 429})
                => (pc' = "raised" /\ sleeps' = sleeps /\ retries' = retries)
          /\ pc' = "request" =>
                /\ retries < max_retries
                /\ retries' = retries + 1
                /\ Len(sleeps') = Len(sleeps) + 1
                /\ \/ hist'[Len(hist')].kind = "timeout"
                   \/ /\ hist'[Len(hist')].kind = "status"
                      /\ hist'[Len(hist')].code \in {500, 502, 503, 504, 429}]_vars

\* C3, reached: a call that failed on a 404 answered to its second attempt,
\* after the one sleep of the first retry
C3_NonRetryableAfterRetry ==
    /\ pc = "raised"
    /\ hist = <<Status(503), Status(404)>>
    /\ sleeps = <<1>>

\* C4: whenever make_request raises, the error carries the status code of the
\* last upstream response, or 504 when the last attempt timed out.
C4_ErrorCarriesLastCause ==
    (pc = "raised" /\ hist[Len(hist)].kind \in {"status", "timeout"}) =>
        /\ outcome.kind = "raise"
        /\ outcome.status_code =
              IF hist[Len(hist)].kind = "timeout" THEN 504 ELSE hist[Len(hist)].code

\* C5: when the fetch of the primary dataset fails, each aggregation operation
\* answers with a payload of success = FALSE whose metadata.source is
\* "Fallback data system", never with an error.
C5_PrimaryFailureFallsBack ==
    [][(pc = "raised" /\ dataset = "primary" /\ pc' = "done") =>
          /\ result'.kind = "response"
          /\ result'.payload.success = FALSE
          /\ result'.payload.metadata.source = "Fallback data system"]_vars

\* C6: in the all-India summary and in the comprehensive claims, when the
\* primary fetch succeeded and the approval fetch fails, the operation answers
\* with a live payload of success = TRUE whose records all carry the approval
\* percentage 0.
C6_ApprovalFailureIsNotFatal ==
    [][(pc = "raised" /\ dataset = "approval" /\ pc' = "done") =>
          /\ result'.kind = "response"
          /\ result'.payload.success = TRUE
          /\ LET records == IF op = "all_india" THEN result'.payload.top_states
                            ELSE result'.payload.claims
             IN  \A i \in 1..Len(records) : records[i].approval_percentage = Fin(0)]_vars

\* C7: safe_int and safe_float never raise: whatever the value, each of them
\* returns a number.
C7_CoercionNeverRaises ==
    \A name \in DOMAIN cout : cout[name].exc = "none"

\* C8: each of the three safe_int definitions returns the default on None and
\* on the sentinels NA, N.A., the empty string and NULL in any case, and the
\* three return the same result on every input.
C8_SafeIntDefinitionsAgree ==
    \A f \in DOMAIN cout \cap {"safe_int", "safe_int_states", "safe_int_claims"} :
        /\ cout[f].exc = "none"
        /\ (cin.t = "null" \/ (cin.t = "str" /\ upper(cin.s) \in Sentinels4))
              => cout[f].val = cdef
        /\ \A g \in DOMAIN cout \cap {"safe_int", "safe_int_states", "safe_int_claims"} :
              cout[g].val = cout[f].val

\* C9: every numeric field of every record of a live answer is a finite
\* number that is not negative.
C9_NumericFieldsNonNegativeFinite ==
    (pc = "done" /\ result.kind = "response" /\ result.payload.success) =>
        CASE op = "all_india" ->
                \A i \in 1..Len(result.payload.top_states) :
                    LET e == result.payload.top_states[i] IN
                    /\ e.claims_received >= 0 /\ e.titles_distributed >= 0
                    /\ e.approval_percentage.cls = "fin" /\ e.approval_percentage.h >= 0
                    /\ e.processing_efficiency.cls = "fin" /\ e.processing_efficiency.h >= 0
          [] op = "states" ->
                \A i \in 1..Len(result.payload.states) :
                    LET e == result.payload.states[i] IN
                    /\ e.total_claims_received >= 0 /\ e.total_titles_distributed >= 0
                    /\ e.processing_efficiency.cls = "fin" /\ e.processing_efficiency.h >= 0
          [] OTHER ->
                \A i \in 1..Len(result.payload.claims) :
                    LET e == result.payload.claims[i] IN
                    /\ e.total_claims_received >= 0 /\ e.total_titles_distributed >= 0
                    /\ e.individual_claims_received >= 0 /\ e.community_claims_received >= 0
                    /\ e.individual_titles_distributed >= 0
                    /\ e.community_titles_distributed >= 0
                    /\ e.area_in_hectares >= 0
                    /\ e.approval_percentage.cls = "fin" /\ e.approval_percentage.h >= 0
                    /\ e.processing_efficiency.cls = "fin" /\ e.processing_efficiency.h >= 0

\* C10: every record of a live answer, historical records included, has
\* processing_efficiency = round(titles / max(claims, 1) * 100, 2), which is
\* at least 0 and at most 100 * titles.
C10_EfficiencyFormula ==
    (pc = "done" /\ result.kind = "response" /\ result.payload.success) =>
        LET records == CASE op = "all_india" -> result.payload.top_states
                         [] op = "states" -> result.payload.states
                         [] OTHER -> result.payload.claims
            claims(e) == IF op = "all_india" THEN e.claims_received ELSE e.total_claims_received
            titles(e) == IF op = "all_india" THEN e.titles_distributed
                         ELSE e.total_titles_distributed
        IN  \A i \in 1..Len(records) :
                /\ records[i].processing_efficiency =
                      Fin(RoundDiv(titles(records[i]) * 10000, Max(claims(records[i]), 1)))
                /\ records[i].processing_efficiency.h >= 0
                /\ records[i].processing_efficiency.h <= 10000 * titles(records[i])

\* C11: every record of the claims list of a comprehensive-claims answer has
\* the status distributed when its titles distributed are more than 0, else
\* received when its claims received are more than 0, else pending.
C11_StatusDerivedByPriority ==
    (pc = "done" /\ op = "claims" /\ result.kind = "response") =>
        \A i \in 1..Len(result.payload.claims) :
            LET e == result.payload.claims[i] IN
            /\ e.status \in {"distributed", "received", "pending"}
            /\ e.status = "distributed" <=> e.total_titles_distributed > 0
            /\ e.status = "received" <=>
                  (e.total_titles_distributed <= 0 /\ e.total_claims_received > 0)

\* C12: a successful comprehensive-claims answer returns
\* min(limit, max(0, total_count - offset)) records and reports that number
\* in pagination.returned.
C12_PageLength ==
    (pc = "done" /\ op = "claims" /\ result.kind = "response") =>
        /\ Len(result.payload.claims) = result.payload.pagination.returned
        /\ result.payload.pagination.returned =
              Min(params.limit, Max(0, result.payload.total_count - params.offset))

\* C13 as stated: total_pages is the ceiling of total_count / limit, also for
\* total_count = 0; has_next is offset + limit < total_count and has_previous
\* is offset > 0.
C13_TotalPagesIsCeiling ==
    (pc = "done" /\ op = "claims" /\ result.kind = "response") =>
        LET pagination == result.payload.pagination IN
        /\ pagination.total_pages * params.limit >= result.payload.total_count
        /\ (pagination.total_pages - 1) * params.limit < result.payload.total_count
        /\ pagination.has_next = (params.offset + params.limit < result.payload.total_count)
        /\ pagination.has_previous = (params.offset > 0)

\* C13, amended: total_pages is the ceiling of total_count / limit and never
\* less than 1, so it is 1 for total_count = 0; has_next is
\* offset + limit < total_count and has_previous is offset > 0.
C13_TotalPagesAtLeastOne ==
    (pc = "done" /\ op = "claims" /\ result.kind = "response") =>
        LET pagination == result.payload.pagination IN
        /\ pagination.total_pages >= 1
        /\ pagination.total_pages * params.limit >= result.payload.total_count
        /\ pagination.total_pages > 1 =>
              (pagination.total_pages - 1) * params.limit < result.payload.total_count
        /\ pagination.total_count = result.payload.total_count
        /\ pagination.has_next = (params.offset + params.limit < result.payload.total_count)
        /\ pagination.has_previous = (params.offset > 0)

\* C13, reached: an answer to a request of offset 5 with no record counted
C13_EmptyAnswerHasOnePage ==
    /\ pc = "done" /\ op = "claims" /\ result.kind = "response"
    /\ result.payload.total_count = 0
    /\ result.payload.pagination.total_pages = 1
    /\ result.payload.pagination.has_previous

\* C14: every record of the returned claims list satisfies every filter that
\* is set: its district equals the district filter ignoring case, its state
\* contains the search text ignoring case, and its status field equals the
\* status filter ignoring case; total_count is the number of primary records
\* that satisfy all the filters that are set.
C14_FiltersApplyToEverythingReturned ==
    (pc = "done" /\ op = "claims" /\ result.kind = "response") =>
        LET status_of(r) ==
                IF safe_int_claims(Get(r, K_titles_total, JNull), 0).val > 0 THEN "distributed"
                ELSE IF safe_int_claims(Get(r, K_claims_total, JNull), 0).val > 0
                     THEN "received" ELSE "pending"
            passes(r) ==
                /\ Truthy(params.district) =>
                      lower(Get(r, "district", JStr(<<>>)).s) = lower(params.district.s)
                /\ Truthy(params.search) =>
                      Contains(lower(Get(r, "state", JStr(<<>>)).s), lower(params.search.s))
                /\ Truthy(params.status) => lower(Chars(status_of(r))) = lower(params.status.s)
                /\ Truthy(params.date_from) => ~StrLess(Today, params.date_from.s)
                /\ Truthy(params.date_to) => ~StrLess(params.date_to.s, Today)
        IN  /\ \A i \in 1..Len(result.payload.claims) :
                  LET e == result.payload.claims[i] IN
                  /\ Truthy(params.district) => lower(e.district.s) = lower(params.district.s)
                  /\ Truthy(params.search) =>
                        Contains(lower(e.state.s), lower(params.search.s))
                  /\ Truthy(params.status) => lower(Chars(e.status)) = lower(params.status.s)
            /\ "all_data" \in DOMAIN locals =>
                  result.payload.total_count =
                     Cardinality({i \in 1..Len(locals.all_data) : passes(locals.all_data[i])})

\* C15: with an allow-listed sort_by and a filtered set that reaches the
\* requested page, the returned claims are the records at the positions
\* offset .. offset + limit - 1 of the whole filtered set ordered by the sort
\* key in the requested direction.
C15_SortedBeforePaginated ==
    (/\ pc = "done" /\ op = "claims" /\ result.kind = "response"
     /\ Truthy(params.sort_by) /\ params.sort_by.s \in SortAllowList
     /\ result.payload.total_count > params.offset) =>
        \E whole \in sorted_claims(all_processed_claims(locals.all_data, locals.approval_data,
                                                        params), params) :
            result.payload.claims = Slice(whole, params.offset, params.limit)

\* C16: a sort_by outside the allow-list changes nothing: once the records
\* are processed the request succeeds, and the answer is the one of the same
\* request without sort_by: the page in upstream order (the historical records
\* when the page of 2024 records is empty and no state filter is set), with
\* the same total_count, pagination and summary.
C16_UnknownSortKeyIsNoOp ==
    (/\ pc = "done" /\ op = "claims" /\ "total_count" \in DOMAIN locals
     /\ Truthy(params.sort_by) /\ params.sort_by.s \notin SortAllowList) =>
        LET unsorted == [params EXCEPT !.sort_by = JNull]
            returned == IF "all_data" \in DOMAIN locals
                        THEN Slice(all_processed_claims(locals.all_data, locals.approval_data,
                                                        unsorted),
                                   params.offset, params.limit)
                        ELSE IF "historical_data" \in DOMAIN locals
                             THEN historical_claims(locals.historical_data)
                             ELSE <<>>
        IN  result = Respond(claims_payload(returned, returned, locals.total_count, unsorted))

\* C16, reached: an answer to a request with an unknown sort_by whose two
\* records are not in the order of any allow-listed numeric key
C16_UnknownSortKeyAnswered ==
    /\ pc = "done" /\ op = "claims" /\ result.kind = "response"
    /\ Truthy(params.sort_by) /\ params.sort_by.s \notin SortAllowList
    /\ Len(result.payload.claims) = 2
    /\ result.payload.claims[1].processing_efficiency.h
          > result.payload.claims[2].processing_efficiency.h
    /\ result.payload.claims[1].total_claims_received
          < result.payload.claims[2].total_claims_received

\* C17: the summary of a comprehensive-claims answer is computed over the
\* returned claims only: its four totals are the sums of the fields over the
\* returned records, overall_processing_efficiency is
\* round(total titles / max(total claims, 1) * 100, 2) of those sums, and
\* states_covered is the number of distinct states among the returned records.
C17_SummaryOverReturnedPage ==
    (pc = "done" /\ op = "claims" /\ result.kind = "response") =>
        LET claims == result.payload.claims
            summary == result.payload.summary
        IN  /\ summary.total_claims_received = Sum(ClaimField(claims, "total_claims_received"))
            /\ summary.total_titles_distributed =
                  Sum(ClaimField(claims, "total_titles_distributed"))
            /\ summary.total_individual_claims =
                  Sum(ClaimField(claims, "individual_claims_received"))
            /\ summary.total_community_claims =
                  Sum(ClaimField(claims, "community_claims_received"))
            /\ summary.overall_processing_efficiency =
                  Fin(RoundDiv(summary.total_titles_distributed * 10000,
                               Max(summary.total_claims_received, 1)))
            /\ summary.states_covered = Cardinality({claims[i].state : i \in 1..Len(claims)})

\* C17, reached: an answer of one record out of a filtered set of two, whose
\* second record, left outside the page, counts 200 claims
C17_PageSmallerThanFilteredSet ==
    /\ pc = "done" /\ op = "claims" /\ result.kind = "response"
    /\ result.payload.total_count = 2
    /\ Len(result.payload.claims) = 1
    /\ result.payload.summary.total_claims_received = 100
    /\ Get(locals.all_data[2], K_claims_total, JNull) = JInt(200)

\* C18: when the approval dataset holds one or more records of a state, the
\* approval_percentage of each record of that state built from the primary
\* dataset, in the all-India summary and in the comprehensive claims, is the
\* percentage of the first of them in upstream order.
C18_FirstApprovalRecordWins ==
    (/\ pc = "done" /\ op \in {"all_india", "claims"} /\ result.kind = "response"
     /\ result.payload.success /\ "approval_data" \in DOMAIN locals) =>
        LET records == IF op = "all_india" THEN result.payload.top_states
                       ELSE result.payload.claims
            named(state) == {j \in 1..Len(locals.approval_data) :
                                Get(locals.approval_data[j], "name_of_state", JStr(<<>>)) = state}
            first(state) == CHOOSE j \in named(state) : \A k \in named(state) : j <= k
        IN  \A i \in 1..Len(records) :
                (/\ op = "claims" => records[i].status # "historical"
                 /\ named(records[i].state) # {}) =>
                    records[i].approval_percentage =
                        safe_float(Get(locals.approval_data[first(records[i].state)],
                                       K_percentage, JInt(0)), Fin(0)).val

\* C19: in a live all-India summary and in a comprehensive-claims answer built
\* from the primary records, every primary record that passes the operation's
\* skip rules and filters is in the output (the all-India list holds every
\* kept state up to its limit of 10; the claims are the requested page of the
\* records that pass the filters, all of them counted in total_count),
\* whatever the approval dataset holds, and a record whose state equals the
\* name_of_state of no approval record, case included, has the
\* approval_percentage 0.
C19_MissingApprovalNeverBlocks ==
    (/\ pc = "done" /\ op \in {"all_india", "claims"} /\ result.kind = "response"
     /\ result.payload.success /\ "approval_data" \in DOMAIN locals) =>
        LET exact(state) ==
                \E j \in 1..Len(locals.approval_data) :
                    Get(locals.approval_data[j], "name_of_state", JStr(<<>>)) = state
        IN  IF op = "all_india"
            THEN LET kept == all_india_kept(locals.data)
                     top == result.payload.top_states
                 IN  /\ Len(top) = Min(TopStatesLimit, Len(kept))
                     /\ Len(kept) <= TopStatesLimit =>
                           \A i \in 1..Len(kept) : \E j \in 1..Len(top) :
                               /\ top[j].state = Get(kept[i], "state", JStr(<<>>))
                               /\ top[j].claims_received =
                                     safe_int(Get(kept[i], K_claims_total, JNull), 0).val
                     /\ \A j \in 1..Len(top) :
                           ~exact(top[j].state) => top[j].approval_percentage = Fin(0)
            ELSE LET passing == SelectSeq(locals.all_data,
                                          LAMBDA r : /\ claims_pass_text(r, params)
                                                     /\ claims_pass_rest(r, params))
                     claims == result.payload.claims
                 IN  /\ result.payload.total_count = Len(passing)
                     /\ Len(claims) = Len(Slice(passing, params.offset, params.limit))
                     /\ \A i \in 1..Len(Slice(passing, params.offset, params.limit)) :
                           \E j \in 1..Len(claims) :
                               claims[j].raw_government_data =
                                  Slice(passing, params.offset, params.limit)[i]
                     /\ \A i \in 1..Len(claims) :
                           ~exact(claims[i].state) => claims[i].approval_percentage = Fin(0)

\* C19, reached: a live all-India summary that lists the state ODISHA with
\* the approval_percentage 0 while the approval dataset holds a record of
\* Odisha and none of ODISHA
C19_StateWithoutApprovalListed ==
    /\ pc = "done" /\ op = "all_india" /\ result.kind = "response" /\ result.payload.success
    /\ \E j \in 1..Len(locals.approval_data) :
          locals.approval_data[j]["name_of_state"] = JStr(Chars("Odisha"))
    /\ \E i \in 1..Len(result.payload.top_states) :
          /\ result.payload.top_states[i].state = JStr(upper(Chars("Odisha")))
          /\ result.payload.top_states[i].approval_percentage = Fin(0)

\* C20: a live states summary lists the upstream records that name a state
\* ordered by claims received, non-increasing, cut to the first limit of them
\* (no record left out counts more claims than a returned one), and
\* summary.total_claims_all_states is the sum of the claims received of the
\* returned records; for upstream Odisha (claims 100, titles 50) and
\* Chhattisgarh (claims 200, titles 40) with limit 10 the answer lists
\* Chhattisgarh first, Odisha with processing_efficiency 50.0, and the total 300.
C20_StatesSortedTruncatedSummed ==
    (pc = "done" /\ op = "states" /\ result.kind = "response" /\ result.payload.success) =>
        LET states == result.payload.states
            named == SelectSeq(locals.data, LAMBDA r : Truthy(Get(r, "state", JStr(<<>>))))
            claims_of(r) == safe_int_states(Get(r, K_claims_total, JInt(0)), 0).val
            returned(r) == \E i \in 1..Len(states) :
                              /\ states[i].state = r["state"]
                              /\ states[i].total_claims_received = claims_of(r)
        IN  /\ Len(states) = Min(params.limit, Len(named))
            /\ \A i \in 1..(Len(states) - 1) :
                  states[i].total_claims_received >= states[i + 1].total_claims_received
            /\ \A i \in 1..Len(states) : \E k \in 1..Len(named) :
                  /\ states[i].state = named[k]["state"]
                  /\ states[i].total_claims_received = claims_of(named[k])
            /\ \A k \in 1..Len(named) :
                  \/ returned(named[k])
                  \/ \A i \in 1..Len(states) :
                        states[i].total_claims_received >= claims_of(named[k])
            /\ result.payload.summary.total_claims_all_states =
                  Sum([i \in 1..Len(states) |-> states[i].total_claims_received])
            /\ (/\ params.limit = 10
                /\ Len(locals.data) = 2
                /\ locals.data[1]["state"] = JStr(Chars("Odisha"))
                /\ claims_of(locals.data[1]) = 100
                /\ locals.data[2]["state"] = JStr(Chars("Chhattisgarh"))) =>
                  /\ Len(states) = 2
                  /\ states[1].state = JStr(Chars("Chhattisgarh"))
                  /\ states[2].state = JStr(Chars("Odisha"))
                  /\ states[2].processing_efficiency = Fin(5000)
                  /\ result.payload.summary.total_claims_all_states = 300

\* C20, reached: the live answer to limit 10 for upstream Odisha (100, 50)
\* followed by Chhattisgarh (200, 40)
C20_OdishaChhattisgarhAnswered ==
    /\ pc = "done" /\ op = "states" /\ result.kind = "response" /\ result.payload.success
    /\ params.limit = 10
    /\ Len(locals.data) = 2
    /\ locals.data[1]["state"] = JStr(Chars("Odisha"))
    /\ locals.data[1][K_claims_total] = JStr(<<"1", "0", "0">>)
    /\ locals.data[2]["state"] = JStr(Chars("Chhattisgarh"))
    /\ result.payload.summary.total_claims_all_states = 300

\* C21: the fallback payload of the all-India summary and of the states
\* summary has the field names of the live payload, no more and no fewer, at
\* the top level, inside metadata, inside the summary and inside each record.
C21_FallbackShapeEqualsLiveShape ==
    (/\ pc = "done" /\ op \in {"all_india", "states"} /\ result.kind = "response"
     /\ ~result.payload.success) =>
        IF op = "all_india"
        THEN LET live == all_india_live(<<>>, <<>>) IN
             /\ DOMAIN result.payload = DOMAIN live
             /\ DOMAIN result.payload.metadata = DOMAIN live.metadata
             /\ DOMAIN result.payload.all_india_summary = DOMAIN live.all_india_summary
             /\ \A i \in 1..Len(result.payload.top_states) :
                   DOMAIN result.payload.top_states[i]
                      = DOMAIN all_india_entry(JStr(<<>>), 0, 0, Fin(0))
        ELSE LET live == states_live(<<>>, params.limit, params.include_districts) IN
             /\ DOMAIN result.payload = DOMAIN live
             /\ DOMAIN result.payload.metadata = DOMAIN live.metadata
             /\ DOMAIN result.payload.summary = DOMAIN live.summary
             /\ \A i \in 1..Len(result.payload.states) :
                   DOMAIN result.payload.states[i]
                      = DOMAIN state_entry(JStr(<<>>), 0, 0, params.include_districts)

\* C24: in the all-India summary and in the states summary, once the last
\* fetch of the request has returned, the request ends with a success = TRUE
\* payload, whatever the fetched records hold, and never with fallback data.
C24_FallbackOnlyOutOfFetching ==
    [][(/\ op \in {"all_india", "states"} /\ pc = "returned"
        /\ (op = "all_india" => dataset = "approval")
        /\ pc' = "done") =>
          /\ result'.kind = "response"
          /\ result'.payload.success = TRUE
          /\ result'.payload.metadata.source # "Fallback data system"]_vars

\* C27: the comprehensive claims handler asks for the historical dataset only
\* after the primary and the approval fetch have returned, when no state
\* filter is given and the requested page of the filtered primary records is
\* empty, and it keeps the count of those records as total_count; when the
\* historical fetch raises, the handler still answers success = TRUE with an
\* empty claims list and that total_count.
C27_HistoricalOnlyOnEmptyPage ==
    [][/\ (dataset' = "historical" /\ dataset # "historical") =>
             /\ op = "claims" /\ pc = "returned" /\ dataset = "approval"
             /\ "all_data" \in DOMAIN locals
             /\ ~Truthy(params.state)
             /\ \E approval_data \in Payloads("approval") :
                   LET all == all_processed_claims(locals.all_data, approval_data, params) IN
                   /\ Slice(all, params.offset, params.limit) = <<>>
                   /\ locals'.total_count = Len(all)
       /\ (op = "claims" /\ dataset = "historical" /\ pc = "raised" /\ pc' = "done") =>
             /\ result'.kind = "response"
             /\ result'.payload.success = TRUE
             /\ result'.payload.claims = <<>>
             /\ result'.payload.pagination.total_count = locals.total_count]_vars

\* C27, reached: a success answer with no claims and total_count 2, given
\* after the historical fetch raised (the frame holds no historical_data)
C27_HistoricalFailureAbsorbed ==
    /\ pc = "done" /\ op = "claims" /\ result.kind = "response"
    /\ DOMAIN locals = {"total_count"}
    /\ result.payload.success /\ result.payload.claims = <<>>
    /\ result.payload.pagination.total_count = 2

C28_TotalsOverAllKeptRecords ==
    (/\ pc = "done" /\ op = "all_india" /\ result.kind = "response"
     /\ result.payload.success) =>
        LET kept == SelectSeq(locals.data,
                              LAMBDA r : /\ "state" \in DOMAIN r
                                         /\ r["state"] # JStr(<<>>)
                                         /\ r["state"] # JStr(Chars("Total")))
            summary == result.payload.all_india_summary
            top == result.payload.top_states
        IN  /\ summary.total_claims_received =
                  Sum([i \in 1..Len(kept) |-> safe_int(Get(kept[i], K_claims_total, JNull), 0).val])
            /\ summary.total_titles_distributed =
                  Sum([i \in 1..Len(kept) |-> safe_int(Get(kept[i], K_titles_total, JNull), 0).val])
            /\ summary.total_states_covered = Len(kept)
            /\ summary.claims_pending =
                  summary.total_claims_received - summary.total_titles_distributed
            /\ Len(top) = Min(10, Len(kept))
            /\ \A i, j \in 1..Len(top) :
                  i < j => top[i].claims_received >= top[j].claims_received

\* C28, reached: a live summary of eleven states, with 1 + 2 + ... + 11 = 66
\* claims received, that lists the ten states of most claims
C28_ElevenStatesSummed ==
    /\ pc = "done" /\ op = "all_india" /\ result.kind = "response" /\ result.payload.success
    /\ result.payload.all_india_summary.total_states_covered = 11
    /\ result.payload.all_india_summary.total_claims_received = 66
    /\ Len(result.payload.top_states) = 10
    /\ result.payload.top_states[1].claims_received = 11
    /\ result.payload.top_states[10].claims_received = 2

\* C22: every payload an exposed operation returns holds a success flag,
\* metadata.source and metadata.last_updated, and success is FALSE exactly
\* when the payload comes from the fallback catalog.
C22_EveryResponseCarriesSuccessAndSource ==
    (/\ pc = "done" /\ result.kind = "response"
     /\ op \in {"fra_claims_2024", "all_india", "states", "claims"}) =>
        /\ "success" \in DOMAIN result.payload
        /\ "metadata" \in DOMAIN result.payload
        /\ "source" \in DOMAIN result.payload.metadata
        /\ "last_updated" \in DOMAIN result.payload.metadata
        /\ result.payload.success = FALSE
              <=> result.payload.metadata.source = "Fallback data system"

\* C29: the dashboard widgets handler always returns a payload; its success
\* flag is that of the all-India summary it awaited; from a live summary the
\* six widget values are the summary's values, and from a fallback summary
\* they are the values of the fallback all-India summary.
C29_WidgetsFollowTheSummary ==
    (pc = "done" /\ op = "widgets") =>
        /\ result.kind = "response"
        /\ result.payload.success = locals.summary_response.success
        /\ LET summary == IF locals.summary_response.success
                          THEN locals.summary_response.all_india_summary
                          ELSE all_india_fallback.all_india_summary
               widgets == result.payload.widgets
           IN  /\ DOMAIN widgets = {"total_claims", "total_titles", "processing_efficiency",
                                    "average_approval", "claims_pending", "states_covered"}
               /\ widgets.total_claims.value = summary.total_claims_received
               /\ widgets.total_titles.value = summary.total_titles_distributed
               /\ widgets.processing_efficiency.value = summary.national_processing_efficiency
               /\ widgets.average_approval.value = summary.average_approval_percentage
               /\ widgets.claims_pending.value = summary.claims_pending
               /\ widgets.states_covered.value = summary.total_states_covered

\* C29, reached: widgets built from a fallback summary, with the 5054316
\* claims of the fallback catalog
C29_FallbackWidgets ==
    /\ pc = "done" /\ op = "widgets" /\ result.kind = "response"
    /\ ~locals.summary_response.success
    /\ ~result.payload.success
    /\ result.payload.widgets.total_claims.value = 5054316

\* C26: for each client, whatever the order of the dispatches and of the
\* returns of call_next: a request is answered 429 exactly when max_requests
\* requests of the same client were admitted before it at times newer than
\* its own time minus window_seconds; a rejected request is not recorded; no
\* span of window_seconds holds the admission times of more than max_requests
\* requests of one client; the list of a client holds what its own requests
\* left there, whatever the other clients did.
C26_RateLimitPerClientWindow ==
    LET admitted(i) == responses[i].status_code # 429
        before(i) == {j \in 1..(i - 1) :
                         /\ responses[j].client_ip = responses[i].client_ip
                         /\ admitted(j)
                         /\ responses[j].now > responses[i].now - window_seconds}
        own(client_ip) == SelectSeq(responses, LAMBDA r : r.client_ip = client_ip)
        last(client_ip) == own(client_ip)[Len(own(client_ip))]
        left(client_ip) ==
            SelectSeq(own(client_ip),
                      LAMBDA r : r.status_code # 429 /\ r.now > last(client_ip).now - window_seconds)
    IN  /\ \A i \in 1..Len(responses) :
              responses[i].status_code = 429 <=> Cardinality(before(i)) >= max_requests
        /\ \A client_ip \in Clients : \A t \in 0..clock :
              Cardinality({i \in 1..Len(responses) :
                              /\ responses[i].client_ip = client_ip
                              /\ admitted(i)
                              /\ responses[i].now > t - window_seconds
                              /\ responses[i].now <= t}) <= max_requests
        /\ \A client_ip \in Clients :
              requests[client_ip] =
                 IF own(client_ip) = <<>> THEN <<>>
                 ELSE [k \in 1..Len(left(client_ip)) |-> left(client_ip)[k].now]

\* C26, reached: a client is admitted twice and rejected at time 0 while its
\* first request is still downstream, and admitted again at time 2, when only
\* that last request is left in its list
C26_RejectedThenAdmittedAgain ==
    /\ Len(responses) = 4
    /\ responses[1].client_ip = "10.0.0.1" /\ responses[1].now = 0 /\ responses[1].status_code = 0
    /\ responses[2].client_ip = "10.0.0.1" /\ responses[2].status_code = 200
    /\ responses[3].client_ip = "10.0.0.1" /\ responses[3].now = 0
    /\ responses[3].status_code = 429
    /\ responses[4].client_ip = "10.0.0.1" /\ responses[4].now = 2 /\ responses[4].status_code # 429
    /\ requests["10.0.0.1"] = <<2>>

\* C25: of two make_request calls on the shared client that run interleaved,
\* each has made a number of attempts, and slept a sequence of delays, that
\* follow from the answers to its own attempts alone: it has retried exactly
\* its own retryable answers (a timeout or a status of the retry list), at
\* most max_retries of them, its retry counter counts them, its delays are
\* retry_delay * 2^0, retry_delay * 2^1, ..., and it has ended exactly when
\* its last answer was a 200, was not retryable, or was the answer to its
\* attempt number max_retries + 1.
C25_ConcurrentCallsIndependent ==
    op = "concurrent" =>
        LET running == [pc |-> pc, dataset |-> dataset, retries |-> retries, hist |-> hist,
                        sleeps |-> sleeps, frames |-> frames, outcome |-> outcome]
            retryable(a) == \/ a.kind = "timeout"
                            \/ a.kind = "status" /\ a.code \in {500, 502, 503, 504, 429}
            retried(h, n) == \A i \in 1..n : retryable(h[i])
            own(c) ==
                /\ Len(c.hist) <= 3
                /\ c.retries = Len(c.sleeps)
                /\ c.sleeps = [i \in 1..Len(c.sleeps) |-> 2 ^ (i - 1)]
                /\ Len(c.frames) = IF c.pc = "request" THEN Len(c.sleeps) ELSE 0
                /\ c.pc = "request" =>
                      /\ Len(c.sleeps) = Len(c.hist) /\ Len(c.hist) <= 2
                      /\ retried(c.hist, Len(c.hist))
                /\ c.pc \in {"returned", "raised"} =>
                      /\ Len(c.sleeps) = Len(c.hist) - 1
                      /\ retried(c.hist, Len(c.hist) - 1)
                      /\ LET answer == c.hist[Len(c.hist)] IN
                         IF answer = Status(200) THEN c.pc = "returned"
                         ELSE c.pc = "raised" /\ (~retryable(answer) \/ Len(c.hist) = 3)
        IN  /\ max_retries = 2 /\ retry_delay = 1
            /\ own(running) /\ own(parked)
            /\ running.dataset # parked.dataset

\* C25, reached: the call for the primary dataset has returned after a 503
\* and one sleep of 1 s, while the call for the approval dataset, which ran
\* in between, has raised after three timeouts and sleeps of 1 s and 2 s
C25_OneReturnedOneExhausted ==
    /\ op = "concurrent"
    /\ dataset = "primary" /\ pc = "returned"
    /\ hist = <<Status(503), Status(200)>> /\ sleeps = <<1>>
    /\ parked.pc = "raised" /\ parked.hist = <<Timeout, Timeout, Timeout>>
    /\ parked.sleeps = <<1, 2>>

====
